---------------------------- MODULE Spec2Model ----------------------------
(***************************************************************************)
(* Hospital chat bot: the Streamlit application (src/maIn.py) and the      *)
(* FastAPI backend (src/Backend/main.py).                                  *)
(*                                                                         *)
(* One deployment runs one of the two programs; `program` says which.      *)
(* Every request handler / script callback runs to completion before the   *)
(* next one starts (the backend handlers are `async def` bodies without an *)
(* await inside the ingestion or chat path, the Streamlit script is run    *)
(* once per interaction), so a handler is one action.  What is outside the *)
(* repository (blob store, loaders, embedding model, language model,       *)
(* Firestore) is an input of the action, drawn with \E.                    *)
(***************************************************************************)
EXTENDS Integers, Sequences, FiniteSets, TLC

VARIABLES
    program,                \* "streamlit" (src/maIn.py) or "api" (src/Backend/main.py)
    FIREBASE_INITIALIZED,   \* outcome of the Firebase initialisation at import time
    bucket,                 \* blob store: file name -> content stored under it ("absent" if none)
    vectorstore,            \* the vector index (both programs), NoVectorstore when unset
    conversation_chain,     \* the conversation chain (both programs), NoChain when unset
    loaded_firebase_files,  \* streamlit: st.session_state.loaded_firebase_files
    all_documents,          \* streamlit: st.session_state.all_documents
    document_count,         \* streamlit: st.session_state.document_count
    auto_loaded,            \* streamlit: 'auto_loaded' in st.session_state
    chat_history,           \* streamlit: st.session_state.chat_history
    loaded_documents,       \* api: global loaded_documents
    started,                \* api: the startup event has run
    firestore,              \* api: the three Firestore collections
    in_memory_storage,      \* api: the in-process fallback store
    op,                     \* the last handler call: its inputs and what it reported
    ld_raw,                 \* loader study: what each extraction strategy yields on the document
    ld_res,                 \* loader study: the result of load_document on it
    cap_in,                 \* chunk-cap study: two record lists handed to setup_vectorstore
    cap_out,                \* chunk-cap study: the two results
    fn_in,                  \* function studies: the argument handed to a pure function
    fn_out                  \* function studies: what the function returned

vars == << program, FIREBASE_INITIALIZED, bucket, vectorstore,
           conversation_chain, loaded_firebase_files, all_documents,
           document_count, auto_loaded, chat_history, loaded_documents,
           started, firestore, in_memory_storage, op, ld_raw, ld_res,
           cap_in, cap_out, fn_in, fn_out >>

---------------------------------------------------------------------------
(* Bounds of the model *)

\* Longest page list a strategy returns in the loader study.
MaxPages == 2

\* Chat exchanges kept in a history / chat records kept in the record store.
MaxChats == 2

\* Appointment requests kept in the record store.
MaxAppointments == 1

\* Admin notifications kept in the record store.
MaxNotifications == 2

(* Program constants.  The caps are scaled down so that the model reaches   *)
(* them: 2000 chunks per corpus and 500 records per document in the source. *)
ChunkCap == 3

RecordCap == 2

\* the 200 of `parts[1].strip()[:200]`, scaled
ReasonCap == 12

\* the longest digit string int() converts (4300 by default in CPython), scaled
MaxStrDigits == 2

---------------------------------------------------------------------------
(* Generic helpers *)

Min(a, b) == IF a <= b THEN a ELSE b

\* s[:n]
Take(s, n) == SubSeq(s, 1, Min(n, Len(s)))

RECURSIVE Concat(_)
\* the concatenation of a sequence of sequences
Concat(ss) == IF ss = << >> THEN << >> ELSE Head(ss) \o Concat(Tail(ss))

\* sep.join(parts)
RECURSIVE join(_, _)
join(sep, parts) ==
    IF parts = << >> THEN << >>
    ELSE IF Len(parts) = 1 THEN parts[1]
    ELSE parts[1] \o sep \o join(sep, Tail(parts))

\* text.split(sep) for a separator of one character
RECURSIVE split(_, _)
split(text, sep) ==
    LET at == { i \in DOMAIN text : text[i] = sep }
    IN  IF at = { } THEN << text >>
        ELSE LET i == CHOOSE x \in at : \A y \in at : x <= y
             IN  << SubSeq(text, 1, i - 1) >>
                 \o split(SubSeq(text, i + 1, Len(text)), sep)

\* all sequences over S of length at most n
SeqsUpTo(S, n) == UNION { [1..k -> S] : k \in 0..n }

---------------------------------------------------------------------------
(* Documents *)

\* Blob names in the order list_blobs returns them.
FileOrder == << "a.pdf", "b.pdf" >>

FileNames == { FileOrder[i] : i \in DOMAIN FileOrder }

(* The text of a page, by what the splitter makes of it: 0 is blank (no     *)
(* chunk), 1 fits one chunk, 2 needs two chunks.                            *)
PageTexts == 0..2

Blank(t) == t = 0

(* What one extraction strategy yields on one document: it raises, or it    *)
(* reads a list of page texts.                                              *)
Raises == [raises |-> TRUE, pages |-> << >>]

Pages(p) == [raises |-> FALSE, pages |-> p]

\* The outcomes the loader study draws from: pages are blank (0) or not (1).
RawOutcomes == { Raises } \cup { Pages(p) : p \in SeqsUpTo({0, 1}, MaxPages) }

(* The contents a blob can have.  Parse(c) gives, per strategy, what the    *)
(* strategy yields on bytes c: a fixed property of the bytes.               *)
Contents == { "v1", "v2", "bad" }

Parse(c) ==
    CASE c = "v1"   -> << Pages(<<1>>), Pages(<<1>>), Pages(<<1>>), Pages(<<1>>) >>
      [] c = "v2"   -> << Raises, Pages(<<2, 1, 1>>), Pages(<<2, 1, 1>>), Pages(<<2, 1, 1>>) >>
      [] OTHER      -> << Raises, Raises, Raises, Raises >>

---------------------------------------------------------------------------
(* Loader chain *)

\* loader.load() of a library loader: one record per page it reads, blank or not.
LibraryRecords(raw) ==
    [ i \in DOMAIN raw.pages |-> [page |-> i, text |-> raw.pages[i]] ]

NonBlankRecord(r) == ~Blank(r.text)

\* The page loops of the PyMuPDF and PyPDF2 methods: `if text.strip()` keeps
\* a record for the pages with text only, under the page's own number.
PageRecords(raw) == SelectSeq(LibraryRecords(raw), NonBlankRecord)

\* `return documents` after n strategies were attempted
Loaded(docs, n) == [raised |-> FALSE, documents |-> docs, attempted |-> n]

\* `raise Exception("All PDF processing methods failed ...")`
AllMethodsFailed(n) == [raised |-> TRUE, documents |-> << >>, attempted |-> n]

(* One `try: ... if documents: return documents  except: warn` block: the  *)
(* strategy succeeds when it does not raise and its record list is not     *)
(* empty.                                                                  *)
MethodReturns(raw, docs) == ~raw.raises /\ docs # << >>

\* maIn.py load_document: Unstructured, PyPDFLoader, PyMuPDF, PyPDF2.
load_document_ui(raw) ==
    IF MethodReturns(raw[1], LibraryRecords(raw[1]))
    THEN Loaded(LibraryRecords(raw[1]), 1)
    ELSE IF MethodReturns(raw[2], LibraryRecords(raw[2]))
    THEN Loaded(LibraryRecords(raw[2]), 2)
    ELSE IF MethodReturns(raw[3], PageRecords(raw[3]))
    THEN Loaded(PageRecords(raw[3]), 3)
    ELSE IF MethodReturns(raw[4], PageRecords(raw[4]))
    THEN Loaded(PageRecords(raw[4]), 4)
    ELSE AllMethodsFailed(4)

\* Backend/main.py load_document: Unstructured, PyPDFLoader.
load_document_api(raw) ==
    IF MethodReturns(raw[1], LibraryRecords(raw[1]))
    THEN Loaded(LibraryRecords(raw[1]), 1)
    ELSE IF MethodReturns(raw[2], LibraryRecords(raw[2]))
    THEN Loaded(LibraryRecords(raw[2]), 2)
    ELSE AllMethodsFailed(2)

\* The records of blob `name` holding content c, as the program keeps them.
SourceRecords(name, c, recs) ==
    [ i \in DOMAIN recs |->
        [source |-> name, ver |-> c, page |-> recs[i].page, text |-> recs[i].text] ]

---------------------------------------------------------------------------
(* Chunker and index builder *)

\* CharacterTextSplitter on one record: text t gives t chunks.
SplitRecord(r) ==
    [ k \in 1..r.text |->
        [source |-> r.source, ver |-> r.ver, page |-> r.page, part |-> k] ]

\* text_splitter.split_documents(documents): the chunks in generation order
split_documents(documents) ==
    Concat([ i \in DOMAIN documents |-> SplitRecord(documents[i]) ])

\* `if len(doc_chunks) > 2000: doc_chunks = doc_chunks[:2000]`
LimitChunks(doc_chunks) ==
    IF Len(doc_chunks) > ChunkCap THEN Take(doc_chunks, ChunkCap) ELSE doc_chunks

NoVectorstore == [ready |-> FALSE, entries |-> << >>]

Vectorstore(chunks) == [ready |-> TRUE, entries |-> chunks]

(* setup_vectorstore(documents).  It raises on an empty record list, when   *)
(* the embedding model fails (embed_ok = FALSE) and when no chunk is left   *)
(* to embed (FAISS.from_documents on an empty list); otherwise the index    *)
(* holds one entry per kept chunk, in order.  maIn.py builds the same index *)
(* in batches merged in order.                                              *)
setup_vectorstore(documents, embed_ok) ==
    LET doc_chunks == LimitChunks(split_documents(documents))
    IN  IF documents = << >> \/ ~embed_ok \/ doc_chunks = << >>
        THEN [raised |-> TRUE, vectorstore |-> NoVectorstore]
        ELSE [raised |-> FALSE, vectorstore |-> Vectorstore(doc_chunks)]

NoChain == [ready |-> FALSE, retriever |-> << >>, memory |-> << >>]

(* create_chain(vectorstore): a chain over a retriever of this index with a *)
(* fresh, empty ConversationBufferMemory.  Constructing the ChatGroq client *)
(* can raise (chain_ok = FALSE).                                            *)
\* a create_chain that hands back no chain
create_chain_ReturnsNone(vs, chain_ok) ==
    [raised |-> ~chain_ok, chain |-> NoChain]

create_chain(vs, chain_ok) ==
    IF ~chain_ok
    THEN [raised |-> TRUE, chain |-> NoChain]
    ELSE [raised |-> FALSE,
          chain |-> [ready |-> TRUE, retriever |-> vs.entries, memory |-> << >>]]

---------------------------------------------------------------------------
(* The record of the last handler call *)

NoOp ==
    [ kind           |-> "none",   \* "ingest", "chat", "put", "force_reload"
      handler        |-> "none",   \* the function or endpoint that ran
      raised         |-> FALSE,    \* it ended in an error shown or returned to the caller
      success        |-> FALSE,    \* ingest: it reported success
      loaded_count   |-> 0,        \* ingest: files loaded by this call
      reported_count |-> 0,        \* ingest: the loaded count it reported
      total_count    |-> 0,        \* ingest: files it set out to load
      build          |-> "none",   \* ingest: index construction "none", "ok", "embed_failed", "chain_failed"
      leaked         |-> { },      \* temporary files this call created and left behind
      download_failed |-> { },     \* ingest: files whose download returned None
      rerun          |-> FALSE,    \* ingest: see Rerun
      message        |-> << >>,    \* chat: the message sent
      user_id        |-> "none",   \* chat: ChatMessage.user_id
      llm_calls      |-> 0,        \* chat: answer generations started
      llm_failed     |-> FALSE,    \* chat: the language-model call failed
      retrieval      |-> FALSE,    \* chat: the answer was asked of the conversation chain
      user_name      |-> FALSE,    \* chat: ChatMessage.user_name came with the message
      phone_number   |-> FALSE,    \* chat: ChatMessage.phone_number came with the message
      is_appointment_request |-> FALSE,  \* chat: ChatResponse.is_appointment_request
      appointment_id |-> 0,        \* chat, action: the appointment id, 0 for None
      action         |-> "none",   \* action: AppointmentAction.action
      status_code    |-> 0,        \* admin: the HTTP status of the response
      filtered_by    |-> "none",   \* appointments: "filtered_by" of the response
      limit          |-> 0,        \* notifications: the limit asked for
      listing        |-> << >>,    \* admin: the ids of the records returned, in order
      notification_id |-> 0 ]      \* mark-read: the id sent

(* An ingestion call over blob store b is a rerun when the call before it   *)
(* was an ingestion that reported success with every download working, and  *)
(* the store holds what it held then.                                       *)
Rerun(b) ==
    /\ op.kind = "ingest"
    /\ op.success
    /\ op.download_failed = { }
    /\ b = bucket

---------------------------------------------------------------------------
(* Blob store access *)

Absent == "absent"

RECURSIVE Present(_, _)
\* the names of FileOrder (a suffix of it) that blob store b holds, in order
Present(b, names) ==
    IF names = << >> THEN << >>
    ELSE IF b[Head(names)] # Absent
         THEN << Head(names) >> \o Present(b, Tail(names))
         ELSE Present(b, Tail(names))

(* list_firebase_files(): the PDF blobs in listing order; the empty list    *)
(* when Firebase is not initialised or the listing raises.                  *)
list_firebase_files(b, list_ok) ==
    IF ~FIREBASE_INITIALIZED \/ ~list_ok THEN << >> ELSE Present(b, FileOrder)

(* download_firebase_file(file_name) ends in one of three ways: "path", a   *)
(* temporary file holding the blob; "none", None before any temporary file  *)
(* was made (blob missing, error); "left", None after NamedTemporaryFile    *)
(* made the file and download_to_filename raised.                           *)
DownloadOutcomes == { "path", "none", "left" }

\* Downloads that fail within one ingestion call, at most.
MaxDownloadFailures == 1

(* What the outside world does during one ingestion call: whether the       *)
(* listing works, how each download ends, and how index construction ends   *)
(* ("ok"; "embed_fails": the embedding model raises; "chain_fails": the     *)
(* index is built and constructing the chain raises).                       *)
IngestInputs ==
    { [list_ok |-> FALSE, dl |-> [f \in FileNames |-> "path"], build |-> "ok"] }
    \cup { in \in [ list_ok : {TRUE}, dl : [FileNames -> DownloadOutcomes],
                     build : { "ok", "embed_fails", "chain_fails" } ] :
             Cardinality({ f \in FileNames : in.dl[f] # "path" }) <= MaxDownloadFailures }

(* The inputs of an ingestion call over blob store b.  A download is made   *)
(* for the files the call sets out to load only (the listed ones; in the    *)
(* Streamlit application those not loaded before), so the outcome for any   *)
(* other file is fixed to "path".                                           *)
IngestInputsFor(b) ==
    { in \in IngestInputs :
        \A f \in FileNames :
            (b[f] = Absent \/ (program = "streamlit" /\ f \in loaded_firebase_files))
                => in.dl[f] = "path" }

---------------------------------------------------------------------------
(* Streamlit application (src/maIn.py) *)

\* `if len(documents) > 500: documents = documents[:500]`
LimitRecords(documents) ==
    IF Len(documents) > RecordCap THEN Take(documents, RecordCap) ELSE documents

RECURSIVE LoadNewFiles(_, _, _)
(* The `for i, file_info in enumerate(new_files)` loop of                   *)
(* check_and_load_new_files.  acc carries new_documents, success_count,     *)
(* the loaded set and the temporary files left behind.                      *)
LoadNewFiles(new_files, dl, acc) ==
    IF new_files = << >> THEN acc
    ELSE LET file_name == Head(new_files)
             res == load_document_ui(Parse(bucket[file_name]))
             documents == LimitRecords(res.documents)
             step ==
                 CASE dl[file_name] = "none" ->
                        [acc EXCEPT !.download_failed = @ \cup {file_name}]
                   [] dl[file_name] = "left" ->
                        [acc EXCEPT !.download_failed = @ \cup {file_name},
                                    !.leaked = @ \cup {file_name}]
                   [] res.raised ->
                        \* except branch: the temporary file is not removed
                        [acc EXCEPT !.leaked = @ \cup {file_name}]
                   [] OTHER ->
                        [acc EXCEPT
                           !.new_documents = @ \o SourceRecords(file_name, bucket[file_name], documents),
                           !.success_count = @ + 1,
                           !.loaded = @ \cup {file_name}]
         IN  LoadNewFiles(Tail(new_files), dl, step)

(* setup_vectorstore followed by create_chain, assigned one after the other *)
(* to the session state: an exception in the first leaves both as they      *)
(* were, an exception in the second leaves the new index with the old       *)
(* chain.                                                                   *)
RebuildIndex(documents, build) ==
    LET vs == setup_vectorstore(documents, build # "embed_fails")
        ch == create_chain(vs.vectorstore, build # "chain_fails")
    IN  IF vs.raised
        THEN [build |-> "embed_failed", vectorstore |-> vectorstore,
              conversation_chain |-> conversation_chain]
        ELSE IF ch.raised
        THEN [build |-> "chain_failed", vectorstore |-> vs.vectorstore,
              conversation_chain |-> conversation_chain]
        ELSE [build |-> "ok", vectorstore |-> vs.vectorstore,
              conversation_chain |-> ch.chain]

\* a new_files that takes every listed file, loaded before or not
NewFiles_All(firebase_files) == firebase_files

\* `new_files = [f for f in firebase_files if f['name'] not in loaded_firebase_files]`
NewFiles(firebase_files) ==
    SelectSeq(firebase_files, LAMBDA f : f \notin loaded_firebase_files)

(* check_and_load_new_files() as a function of the state and of what the    *)
(* outside world does during the call.                                      *)
check_and_load_new_files(in) ==
    LET firebase_files == list_firebase_files(bucket, in.list_ok)
        new_files == NewFiles(firebase_files)
        same == [ loaded |-> loaded_firebase_files, all_documents |-> all_documents,
                  document_count |-> document_count, vectorstore |-> vectorstore,
                  conversation_chain |-> conversation_chain,
                  op |-> [NoOp EXCEPT !.kind = "ingest",
                                      !.handler = "check_and_load_new_files",
                                      !.rerun = Rerun(bucket)] ]
        acc == LoadNewFiles(new_files, in.dl,
                   [ new_documents |-> << >>, success_count |-> 0,
                     loaded |-> loaded_firebase_files, leaked |-> { },
                     download_failed |-> { } ])
        documents == all_documents \o acc.new_documents
        rebuilt == RebuildIndex(documents, in.build)
    IN  IF firebase_files = << >> THEN same
        ELSE IF new_files = << >>
        THEN IF all_documents # << >> /\ ~vectorstore.ready
             THEN [same EXCEPT
                     !.vectorstore = rebuilt.vectorstore,
                     !.conversation_chain = rebuilt.conversation_chain,
                     !.op.build = rebuilt.build,
                     !.op.raised = rebuilt.build # "ok"]
             ELSE same
        ELSE IF acc.new_documents = << >>
        THEN [same EXCEPT
                !.loaded = acc.loaded,
                !.op.total_count = Len(new_files),
                !.op.leaked = acc.leaked,
                !.op.download_failed = acc.download_failed]
        ELSE [ loaded |-> acc.loaded,
               all_documents |-> documents,
               document_count |-> document_count + acc.success_count,
               vectorstore |-> rebuilt.vectorstore,
               conversation_chain |-> rebuilt.conversation_chain,
               op |-> [same.op EXCEPT
                         !.raised = rebuilt.build # "ok",
                         !.success = rebuilt.build = "ok",
                         !.loaded_count = acc.success_count,
                         !.reported_count =
                             IF rebuilt.build = "ok" THEN acc.success_count ELSE 0,
                         !.total_count = Len(new_files),
                         !.build = rebuilt.build,
                         !.leaked = acc.leaked,
                         !.download_failed = acc.download_failed] ]

(* ConversationalRetrievalChain.invoke({'question': q}): the chain reads    *)
(* its memory and its retriever, calls the language model and, when that    *)
(* returned, saves the exchange (a user turn, then an assistant turn) in    *)
(* its memory.  When the model call raises, nothing is saved.               *)
UserTurn(question) == [role |-> "user", content |-> question]

AssistantTurn(question) == [role |-> "assistant", content |-> question]

\* a chain that saves the user turn only
chain_invoke_UserTurnOnly(chain, question, llm_ok) ==
    IF llm_ok
    THEN [raised |-> FALSE,
          chain |-> [chain EXCEPT !.memory = @ \o << UserTurn(question) >>]]
    ELSE [raised |-> TRUE, chain |-> chain]

\* a chain that saves the user turn before it calls the language model
chain_invoke_SavesBeforeCall(chain, question, llm_ok) ==
    IF llm_ok
    THEN [raised |-> FALSE,
          chain |-> [chain EXCEPT
                       !.memory = @ \o << UserTurn(question), AssistantTurn(question) >>]]
    ELSE [raised |-> TRUE,
          chain |-> [chain EXCEPT !.memory = @ \o << UserTurn(question) >>]]

chain_invoke(chain, question, llm_ok) ==
    IF llm_ok
    THEN [raised |-> FALSE,
          chain |-> [chain EXCEPT
                       !.memory = @ \o << UserTurn(question), AssistantTurn(question) >>]]
    ELSE [raised |-> TRUE, chain |-> chain]

(* The questions a user types, as word lists. *)
UserQuestions ==
    { << "b", "o", "o", "k", " ", "s", "l", "o", "t" >>,
      << "v", "i", "s", "i", "t", "i", "n", "g", " ", "h", "o", "u", "r", "s" >> }

\* main(): auto_load_all_firebase_files() on the first script run
UI_AutoLoad ==
    /\ program = "streamlit"
    /\ ~auto_loaded
    /\ \E in \in IngestInputsFor(bucket) :
          LET r == check_and_load_new_files(in)
          IN  /\ auto_loaded' = TRUE
              /\ loaded_firebase_files' = r.loaded
              /\ all_documents' = r.all_documents
              /\ document_count' = r.document_count
              /\ vectorstore' = r.vectorstore
              /\ conversation_chain' = r.conversation_chain
              /\ op' = r.op
    /\ UNCHANGED << program, FIREBASE_INITIALIZED, bucket, chat_history,
                    loaded_documents, started, firestore, in_memory_storage,
                    ld_raw, ld_res, cap_in, cap_out,
                    fn_in, fn_out >>

\* main(): the 30-second check and the "Check for New Files" button
UI_CheckNewFiles ==
    /\ program = "streamlit"
    /\ auto_loaded
    /\ \E in \in IngestInputsFor(bucket) :
          LET r == check_and_load_new_files(in)
          IN  /\ loaded_firebase_files' = r.loaded
              /\ all_documents' = r.all_documents
              /\ document_count' = r.document_count
              /\ vectorstore' = r.vectorstore
              /\ conversation_chain' = r.conversation_chain
              /\ op' = r.op
    /\ UNCHANGED << program, FIREBASE_INITIALIZED, bucket, auto_loaded,
                    chat_history, loaded_documents, started, firestore,
                    in_memory_storage, ld_raw, ld_res, cap_in, cap_out,
                    fn_in, fn_out >>

(* main(): the "Force Reload All" button deletes the tracking keys and     *)
(* reruns the script, whose first step is then UI_AutoLoad again.          *)
UI_ForceReload ==
    /\ program = "streamlit"
    /\ auto_loaded
    /\ auto_loaded' = FALSE
    /\ loaded_firebase_files' = { }
    /\ all_documents' = << >>
    /\ document_count' = 0
    /\ vectorstore' = NoVectorstore
    /\ conversation_chain' = NoChain
    /\ op' = [NoOp EXCEPT !.kind = "force_reload", !.handler = "main"]
    /\ UNCHANGED << program, FIREBASE_INITIALIZED, bucket,
                    chat_history, loaded_documents, started, firestore,
                    in_memory_storage, ld_raw, ld_res, cap_in, cap_out,
                    fn_in, fn_out >>

(* show_chat_interface_always() with a question typed.  With a chain the    *)
(* call is not guarded: an exception ends the script run with the error     *)
(* shown.  Without one the plain model call sits in a try/except that       *)
(* shows the error.  Either way the two turns are appended after the call   *)
(* returned only.                                                           *)
UI_Chat ==
    /\ program = "streamlit"
    /\ auto_loaded
    /\ Len(chat_history) < 2 * MaxChats
    /\ \E user_question \in UserQuestions, llm_ok \in BOOLEAN :
          LET r == chain_invoke(conversation_chain, user_question, llm_ok)
              turns == << UserTurn(user_question), AssistantTurn(user_question) >>
          IN  /\ conversation_chain' =
                    IF conversation_chain.ready THEN r.chain ELSE conversation_chain
              /\ chat_history' = IF llm_ok THEN chat_history \o turns ELSE chat_history
              /\ op' = [NoOp EXCEPT !.kind = "chat",
                                    !.handler = "show_chat_interface_always",
                                    !.message = user_question,
                                    !.raised = ~llm_ok,
                                    !.llm_calls = 1,
                                    !.retrieval = conversation_chain.ready,
                                    !.llm_failed = ~llm_ok]
    /\ UNCHANGED << program, FIREBASE_INITIALIZED, bucket, vectorstore,
                    loaded_firebase_files, all_documents, document_count,
                    auto_loaded, loaded_documents, started, firestore,
                    in_memory_storage, ld_raw, ld_res, cap_in, cap_out,
                    fn_in, fn_out >>

(* The blob store is written from outside the program as well (the Firebase *)
(* console, another client): content c is stored under file name f.         *)
BlobPut ==
    /\ \E f \in FileNames, c \in Contents :
          /\ bucket[f] # c
          /\ bucket' = [bucket EXCEPT ![f] = c]
    /\ op' = [NoOp EXCEPT !.kind = "put", !.handler = "blob store"]
    /\ UNCHANGED << program, FIREBASE_INITIALIZED, vectorstore,
                    conversation_chain, loaded_firebase_files, all_documents,
                    document_count, auto_loaded, chat_history, loaded_documents,
                    started, firestore, in_memory_storage, ld_raw, ld_res,
                    cap_in, cap_out,
                    fn_in, fn_out >>

---------------------------------------------------------------------------
(* API backend (src/Backend/main.py): ingestion *)

RECURSIVE LoadAllFiles_StopAtFailure(_, _, _, _)
\* a loop that gives up at the first file that cannot be fetched or read
LoadAllFiles_StopAtFailure(b, firebase_files, dl, acc) ==
    IF firebase_files = << >> THEN acc
    ELSE LET file_name == Head(firebase_files)
             res == load_document_api(Parse(b[file_name]))
         IN  IF dl[file_name] # "path" \/ res.raised
             THEN [acc EXCEPT !.download_failed =
                                 IF dl[file_name] # "path" THEN @ \cup {file_name} ELSE @]
             ELSE LoadAllFiles_StopAtFailure(b, Tail(firebase_files), dl,
                      [acc EXCEPT
                         !.all_documents = @ \o SourceRecords(file_name, b[file_name], res.documents),
                         !.successful_loads = @ + 1])

RECURSIVE LoadAllFiles(_, _, _, _)
(* The `for file_info in firebase_files` loop of reload_all_documents over  *)
(* blob store b.  The temporary file is removed after a load and in the     *)
(* except branch; the one download_firebase_file leaves behind is not.      *)
LoadAllFiles(b, firebase_files, dl, acc) ==
    IF firebase_files = << >> THEN acc
    ELSE LET file_name == Head(firebase_files)
             res == load_document_api(Parse(b[file_name]))
             step ==
                 CASE dl[file_name] = "none" ->
                        [acc EXCEPT !.download_failed = @ \cup {file_name}]
                   [] dl[file_name] = "left" ->
                        [acc EXCEPT !.download_failed = @ \cup {file_name},
                                    !.leaked = @ \cup {file_name}]
                   [] res.raised -> acc
                   [] OTHER ->
                        [acc EXCEPT
                           !.all_documents = @ \o SourceRecords(file_name, b[file_name], res.documents),
                           !.successful_loads = @ + 1]
         IN  LoadAllFiles(b, Tail(firebase_files), dl, step)

(* reload_all_documents() over blob store b.  The three globals are         *)
(* assigned one after the other once the index is built: an exception in    *)
(* setup_vectorstore leaves all three, one in create_chain leaves the new   *)
(* vectorstore with the old chain and the old loaded_documents.             *)
reload_all_documents(b, in) ==
    LET firebase_files == list_firebase_files(b, in.list_ok)
        acc == LoadAllFiles(b, firebase_files, in.dl,
                   [ all_documents |-> << >>, successful_loads |-> 0, leaked |-> { },
                     download_failed |-> { } ])
        vs == setup_vectorstore(acc.all_documents, in.build # "embed_fails")
        ch == create_chain(vs.vectorstore, in.build # "chain_fails")
        same == [ vectorstore |-> vectorstore,
                  conversation_chain |-> conversation_chain,
                  loaded_documents |-> loaded_documents,
                  op |-> [NoOp EXCEPT !.kind = "ingest",
                                      !.handler = "reload_all_documents",
                                      !.rerun = Rerun(b),
                                      !.loaded_count = acc.successful_loads,
                                      !.total_count = Len(firebase_files),
                                      !.leaked = acc.leaked,
                                      !.download_failed = acc.download_failed] ]
    IN  IF firebase_files = << >>
        THEN same    \* False, "No documents found in Firebase"
        ELSE IF acc.all_documents = << >>
        THEN same    \* False, "No documents could be processed"
        ELSE IF vs.raised
        THEN [same EXCEPT !.op.raised = TRUE, !.op.build = "embed_failed"]
        ELSE IF ch.raised
        THEN [same EXCEPT !.vectorstore = vs.vectorstore,
                          !.op.raised = TRUE, !.op.build = "chain_failed"]
        ELSE [ vectorstore |-> vs.vectorstore,
               conversation_chain |-> ch.chain,
               loaded_documents |-> acc.all_documents,
               op |-> [same.op EXCEPT !.success = TRUE, !.build = "ok",
                                      !.reported_count = acc.successful_loads] ]

(* startup_event(): with Firebase initialised the documents are loaded; an  *)
(* exception escaping the event keeps the application from starting, and    *)
(* the process ends with whatever it had assigned.                          *)
API_Startup ==
    /\ program = "api"
    /\ ~started
    /\ \E in \in IngestInputsFor(bucket) :
          LET r == reload_all_documents(bucket, in)
          IN  IF FIREBASE_INITIALIZED
              THEN /\ started' = ~r.op.raised
                   /\ vectorstore' = IF r.op.raised THEN vectorstore ELSE r.vectorstore
                   /\ conversation_chain' = r.conversation_chain
                   /\ loaded_documents' = r.loaded_documents
                   /\ op' = [r.op EXCEPT !.handler = "startup_event"]
              ELSE /\ started' = TRUE
                   /\ op' = [NoOp EXCEPT !.kind = "start", !.handler = "startup_event"]
                   /\ UNCHANGED << vectorstore, conversation_chain,
                                   loaded_documents >>
    /\ UNCHANGED << program, FIREBASE_INITIALIZED, bucket, loaded_firebase_files,
                    all_documents, document_count, auto_loaded, chat_history,
                    firestore, in_memory_storage, ld_raw, ld_res, cap_in, cap_out,
                    fn_in, fn_out >>

(* POST /reload-documents: HTTP 500 unless the reload reported success. *)
API_ReloadDocuments ==
    /\ program = "api"
    /\ started
    /\ \E in \in IngestInputsFor(bucket) :
          LET r == reload_all_documents(bucket, in)
          IN  /\ vectorstore' = r.vectorstore
              /\ conversation_chain' = r.conversation_chain
              /\ loaded_documents' = r.loaded_documents
              /\ op' = [r.op EXCEPT !.handler = "reload_documents_endpoint",
                                    !.raised = ~r.op.success]
    /\ UNCHANGED << program, FIREBASE_INITIALIZED, bucket, loaded_firebase_files,
                    all_documents, document_count, auto_loaded, chat_history,
                    started, firestore, in_memory_storage, ld_raw, ld_res,
                    cap_in, cap_out,
                    fn_in, fn_out >>

(* An upload request: the name and content of the file, and whether the     *)
(* write to the blob store works.                                           *)
UploadInputs ==
    [ filename : FileNames, content : Contents, upload_ok : {TRUE} ]
    \cup { [filename |-> "notes.txt", content |-> "v1", upload_ok |-> TRUE],
           [filename |-> FileOrder[1], content |-> "v1", upload_ok |-> FALSE] }

(* POST /upload-document: the upload's own temporary file is removed on     *)
(* every path; after a successful upload to the blob store the whole        *)
(* corpus is reloaded.  HTTP 400 for a name that is no PDF, HTTP 500 when   *)
(* the upload fails or the reload raises.                                   *)
API_UploadDocument ==
    /\ program = "api"
    /\ started
    /\ \E up \in UploadInputs :
          IF up.filename \notin FileNames \/ ~FIREBASE_INITIALIZED \/ ~up.upload_ok
          THEN /\ op' = [NoOp EXCEPT !.kind = "upload", !.handler = "upload_document",
                                     !.raised = TRUE]
               /\ UNCHANGED << bucket, vectorstore, conversation_chain,
                               loaded_documents >>
          ELSE \E in \in IngestInputsFor([bucket EXCEPT ![up.filename] = up.content]) :
               LET b == [bucket EXCEPT ![up.filename] = up.content]
                   r == reload_all_documents(b, in)
               IN  /\ bucket' = b
                   /\ vectorstore' = r.vectorstore
                   /\ conversation_chain' = r.conversation_chain
                   /\ loaded_documents' = r.loaded_documents
                   /\ op' = [r.op EXCEPT !.handler = "upload_document"]
    /\ UNCHANGED << program, FIREBASE_INITIALIZED, loaded_firebase_files,
                    all_documents, document_count, auto_loaded, chat_history,
                    started, firestore, in_memory_storage, ld_raw, ld_res,
                    cap_in, cap_out,
                    fn_in, fn_out >>

---------------------------------------------------------------------------
(* API backend: record store with in-memory fallback *)

EmptyStore ==
    [ chat_history |-> << >>, appointment_requests |-> << >>,
      admin_notifications |-> << >> ]

(* Both stores together.  A write goes to Firestore when Firebase is        *)
(* initialised and the Firestore call does not raise (fs_ok), else to the   *)
(* in-memory list.                                                          *)
Stores(fs, mem) == [fs |-> fs, mem |-> mem]

\* a write that gives the record up when the Firestore call raises
StoreWrite_NoFallback(st, collection, record, fs_ok) ==
    IF FIREBASE_INITIALIZED /\ fs_ok
    THEN [st EXCEPT !.fs[collection] = Append(@, record)]
    ELSE IF FIREBASE_INITIALIZED THEN st
    ELSE [st EXCEPT !.mem[collection] = Append(@, record)]

StoreWrite(st, collection, record, fs_ok) ==
    IF FIREBASE_INITIALIZED /\ fs_ok
    THEN [st EXCEPT !.fs[collection] = Append(@, record)]
    ELSE [st EXCEPT !.mem[collection] = Append(@, record)]

\* records written so far to a collection, in either store
Count(st, collection) == Len(st.fs[collection]) + Len(st.mem[collection])

\* save_admin_notification(title, message, notification_type)
save_admin_notification(st, notification_type, fs_ok) ==
    StoreWrite(st, "admin_notifications",
               [ id |-> Count(st, "admin_notifications") + 1,
                 type |-> notification_type, read |-> FALSE ],
               fs_ok)

\* a save_appointment_request that stores the request as accepted
save_appointment_request_Accepted(st, user_name, original_message, fs_ok, fs_notif_ok) ==
    LET appointment_id == Count(st, "appointment_requests") + 1
        appointment_data ==
            [ appointment_id |-> appointment_id, user_name |-> user_name,
              original_message |-> original_message, status |-> "accepted" ]
        saved == StoreWrite(st, "appointment_requests", appointment_data, fs_ok)
    IN  [ appointment_id |-> appointment_id,
          stores |-> save_admin_notification(saved, "appointment_request", fs_notif_ok) ]

(* save_appointment_request(...): the request is stored with status        *)
(* 'pending' and a notification is saved after it; returns the new id.     *)
save_appointment_request(st, user_name, original_message, fs_ok, fs_notif_ok) ==
    LET appointment_id == Count(st, "appointment_requests") + 1
        appointment_data ==
            [ appointment_id |-> appointment_id, user_name |-> user_name,
              original_message |-> original_message, status |-> "pending" ]
        saved == StoreWrite(st, "appointment_requests", appointment_data, fs_ok)
    IN  [ appointment_id |-> appointment_id,
          stores |-> save_admin_notification(saved, "appointment_request", fs_notif_ok) ]

\* save_chat_history(user_id, user_role, user_name, message, response, is_appointment)
save_chat_history(st, user_id, message, is_appointment, fs_ok) ==
    StoreWrite(st, "chat_history",
               [ id |-> Count(st, "chat_history") + 1, user_id |-> user_id,
                 message |-> message, is_appointment_request |-> is_appointment ],
               fs_ok)

---------------------------------------------------------------------------
(* API backend: chat *)

(* Text is a sequence of characters, each a one-character string. *)

\* str.lower() on the letters A-Z; every other character is left as it is
LowerOf ==
    "A" :> "a" @@ "B" :> "b" @@ "C" :> "c" @@ "D" :> "d" @@ "E" :> "e" @@ "F" :> "f" @@
    "G" :> "g" @@ "H" :> "h" @@ "I" :> "i" @@ "J" :> "j" @@ "K" :> "k" @@ "L" :> "l" @@
    "M" :> "m" @@ "N" :> "n" @@ "O" :> "o" @@ "P" :> "p" @@ "Q" :> "q" @@ "R" :> "r" @@
    "S" :> "s" @@ "T" :> "t" @@ "U" :> "u" @@ "V" :> "v" @@ "W" :> "w" @@ "X" :> "x" @@
    "Y" :> "y" @@ "Z" :> "z"

LowerChar(c) == IF c \in DOMAIN LowerOf THEN LowerOf[c] ELSE c

\* message.lower()
lower(text) == [ i \in DOMAIN text |-> LowerChar(text[i]) ]

\* `keyword in text`: keyword occurs in text as a substring
In(keyword, text) ==
    \E i \in 0..(Len(text) - Len(keyword)) :
        SubSeq(text, i + 1, i + Len(keyword)) = keyword

appointment_keywords ==
    << << "a", "p", "p", "o", "i", "n", "t", "m", "e", "n", "t" >>,
       << "b", "o", "o", "k" >>,
       << "s", "c", "h", "e", "d", "u", "l", "e" >>,
       << "m", "e", "e", "t" >>,
       << "d", "o", "c", "t", "o", "r", " ", "v", "i", "s", "i", "t" >>,
       << "c", "o", "n", "s", "u", "l", "t", "a", "t", "i", "o", "n" >>,
       << "c", "h", "e", "c", "k", "u", "p" >>,
       << "v", "i", "s", "i", "t", " ", "d", "o", "c", "t", "o", "r" >>,
       << "s", "e", "e", " ", "d", "o", "c", "t", "o", "r" >>,
       << "r", "e", "s", "e", "r", "v", "e" >>,
       << "s", "l", "o", "t" >>,
       << "a", "v", "a", "i", "l", "a", "b", "l", "e", " ", "t", "i", "m", "e" >> >>

\* a detector that compares the message as it was typed, without lower()
detect_appointment_intent_CaseSensitive(message) ==
    \E k \in DOMAIN appointment_keywords : In(appointment_keywords[k], message)

\* detect_appointment_intent(message)
detect_appointment_intent(message) ==
    LET message_lower == lower(message)
    IN  \E k \in DOMAIN appointment_keywords :
            In(appointment_keywords[k], message_lower)

(* Regular expressions of extract_appointment_details, on character          *)
(* sequences.  For a pattern, Ends(text, i) is the set of positions at which *)
(* a match starting at position i ends; the patterns here leave at most one, *)
(* because each digit run and blank run is closed by a character of another  *)
(* class or by a word boundary.                                              *)

Digits == { "0", "1", "2", "3", "4", "5", "6", "7", "8", "9" }

Letters == DOMAIN LowerOf \cup { LowerOf[c] : c \in DOMAIN LowerOf }

\* the character at position p, "" outside the text
At(text, p) == IF p \in DOMAIN text THEN text[p] ELSE ""

\* \b between positions p - 1 and p: one of the two is a word character (\w)
Boundary(text, p) ==
    LET WordChar(c) == c \in Digits \cup Letters \cup { "_" }
    IN  WordChar(At(text, p - 1)) # WordChar(At(text, p))

\* \d{n} at position i
DigitsAt(text, i, n) == \A k \in 0..(n - 1) : At(text, i + k) \in Digits

\* a literal word at position i under re.IGNORECASE
WordAt(word, text, i) ==
    \A j \in 1..Len(word) : LowerChar(At(text, i + j - 1)) = word[j]

\* \s
Space == { " ", "\n" }

\* the position after the longest run of characters of S that starts at i
RECURSIVE Skip(_, _, _)
Skip(S, text, i) == IF At(text, i) \in S THEN Skip(S, text, i + 1) ELSE i

\* a pattern r'\b(w1|w2|...)\b' over the given words
WordEnds(words, text, i) ==
    { i + Len(words[k]) - 1 :
        k \in { h \in DOMAIN words :
                  /\ Boundary(text, i)
                  /\ WordAt(words[h], text, i)
                  /\ Boundary(text, i + Len(words[h])) } }

am_pm == << << "a", "m" >>, << "p", "m" >> >>

\* the date patterns, in the order of the list
date_patterns == << "numeric date", "year-first date", "relative date" >>

\* the time patterns, in the order of the list
time_patterns == << "clock time", "hour", "part of day" >>

\* Ends(text, i) for each pattern of date_patterns and time_patterns
PatternEnds(pattern, text, i) ==
    CASE pattern = "numeric date" ->
           \* r'\b\d{1,2}[/-]\d{1,2}[/-]\d{2,4}\b'
           { i + t[1] + t[2] + t[3] + 1 :
               t \in { u \in (1..2) \X (1..2) \X (2..4) :
                         LET a == u[1]  b == u[2]  c == u[3]
                         IN  /\ Boundary(text, i)
                             /\ DigitsAt(text, i, a)
                             /\ At(text, i + a) \in { "/", "-" }
                             /\ DigitsAt(text, i + a + 1, b)
                             /\ At(text, i + a + b + 1) \in { "/", "-" }
                             /\ DigitsAt(text, i + a + b + 2, c)
                             /\ Boundary(text, i + a + b + c + 2) } }
      [] pattern = "year-first date" ->
           \* r'\b\d{4}[/-]\d{1,2}[/-]\d{1,2}\b'
           { i + 4 + t[1] + t[2] + 1 :
               t \in { u \in (1..2) \X (1..2) :
                         LET b == u[1]  c == u[2]
                         IN  /\ Boundary(text, i)
                             /\ DigitsAt(text, i, 4)
                             /\ At(text, i + 4) \in { "/", "-" }
                             /\ DigitsAt(text, i + 5, b)
                             /\ At(text, i + 5 + b) \in { "/", "-" }
                             /\ DigitsAt(text, i + 6 + b, c)
                             /\ Boundary(text, i + 4 + b + c + 2) } }
      [] pattern = "relative date" ->
           \* r'\b(today|tomorrow|next week|next month)\b'
           WordEnds(<< << "t", "o", "d", "a", "y" >>,
                       << "t", "o", "m", "o", "r", "r", "o", "w" >>,
                       << "n", "e", "x", "t", " ", "w", "e", "e", "k" >>,
                       << "n", "e", "x", "t", " ", "m", "o", "n", "t", "h" >> >>,
                    text, i)
      [] pattern = "clock time" ->
           \* r'\b\d{1,2}:\d{2}\s*(?:am|pm|AM|PM)\b'
           { Skip(Space, text, i + a + 3) + 1 :
               a \in { h \in 1..2 :
                         LET p == Skip(Space, text, i + h + 3)
                         IN  /\ Boundary(text, i)
                             /\ DigitsAt(text, i, h) /\ At(text, i + h) = ":"
                             /\ DigitsAt(text, i + h + 1, 2)
                             /\ \E k \in DOMAIN am_pm : WordAt(am_pm[k], text, p)
                             /\ Boundary(text, p + 2) } }
      [] pattern = "hour" ->
           \* r'\b\d{1,2}\s*(?:am|pm|AM|PM)\b'
           { Skip(Space, text, i + a) + 1 :
               a \in { h \in 1..2 :
                         LET p == Skip(Space, text, i + h)
                         IN  /\ Boundary(text, i)
                             /\ DigitsAt(text, i, h)
                             /\ \E k \in DOMAIN am_pm : WordAt(am_pm[k], text, p)
                             /\ Boundary(text, p + 2) } }
      [] pattern = "part of day" ->
           \* r'\b(morning|afternoon|evening)\b'
           WordEnds(<< << "m", "o", "r", "n", "i", "n", "g" >>,
                       << "a", "f", "t", "e", "r", "n", "o", "o", "n" >>,
                       << "e", "v", "e", "n", "i", "n", "g" >> >>,
                    text, i)

\* the value None
None == << "None" >>

(* re.search(pattern, message, re.IGNORECASE) and match.group(0): the       *)
(* match at the leftmost position where the pattern matches, None when it   *)
(* matches nowhere.                                                         *)
search(pattern, text) ==
    LET starts == { i \in DOMAIN text : PatternEnds(pattern, text, i) # { } }
    IN  IF starts = { } THEN None
        ELSE LET i == CHOOSE x \in starts : \A y \in starts : x <= y
                 j == CHOOSE x \in PatternEnds(pattern, text, i) : TRUE
             IN  SubSeq(text, i, j)

\* `for pattern in patterns: match = re.search(...); if match: ... break`
FirstMatch(patterns, message) ==
    LET matching == { k \in DOMAIN patterns : search(patterns[k], message) # None }
    IN  IF matching = { } THEN None
        ELSE search(patterns[CHOOSE k \in matching : \A h \in matching : k <= h],
                    message)

\* the date loop over a list with the relative words first
extract_date_RelativeFirst(message) ==
    FirstMatch(<< date_patterns[3], date_patterns[1], date_patterns[2] >>, message)

\* `for pattern in date_patterns: ... break`
extract_date(message) == FirstMatch(date_patterns, message)

\* `for pattern in time_patterns: ... break`
extract_time(message) == FirstMatch(time_patterns, message)

reason_indicators ==
    << << "f", "o", "r" >>, << "r", "e", "g", "a", "r", "d", "i", "n", "g" >>,
       << "a", "b", "o", "u", "t" >>, << "b", "e", "c", "a", "u", "s", "e" >> >>

\* str.rstrip(chars)
RECURSIVE rstrip(_, _)
rstrip(S, text) ==
    IF text # << >> /\ text[Len(text)] \in S
    THEN rstrip(S, SubSeq(text, 1, Len(text) - 1))
    ELSE text

\* str.strip(chars)
strip(S, text) ==
    LET r == rstrip(S, text) IN SubSeq(r, Skip(S, r, 1), Len(r))

(* `for indicator in reason_indicators: if indicator in message.lower():     *)
(* ... break`, with message.lower().split(indicator, 1)[1].strip()[:200]    *)
(* for the first indicator of the list that occurs in the message.          *)
extract_reason(message) ==
    LET message_lower == lower(message)
        found == { k \in DOMAIN reason_indicators :
                     In(reason_indicators[k], message_lower) }
        indicator == reason_indicators[CHOOSE x \in found : \A y \in found : x <= y]
        at == { i \in DOMAIN message_lower : WordAt(indicator, message_lower, i) }
        first == CHOOSE i \in at : \A h \in at : i <= h
    IN  IF found = { } THEN None
        ELSE Take(strip(Space, SubSeq(message_lower, first + Len(indicator),
                                      Len(message_lower))),
                  ReasonCap)

extract_appointment_details(message) ==
    [ date   |-> extract_date(message),
      time   |-> extract_time(message),
      reason |-> extract_reason(message) ]

(* Regular expressions of the response formatter.  For a pattern, the       *)
(* match that starts at position i is the position where it ends (0 when    *)
(* the pattern does not match at i) and the text that re.sub puts in its    *)
(* place.                                                                   *)

NoMatch == [end |-> 0, repl |-> << >>]

\* Match(text, i) for each pattern that format_regular_text substitutes
Substitution(pattern, text, i) ==
    CASE pattern = "number, line break" ->
           \* re.sub(r'(\d+\.)\s*\n\s*([A-Za-z])', r'\1 \2', text)
           LET d == Skip(Digits, text, i)
               w == Skip(Space, text, d + 1)
           IN  IF /\ d > i /\ At(text, d) = "."
                  /\ \E p \in (d + 1)..(w - 1) : text[p] = "\n"
                  /\ At(text, w) \in Letters
               THEN [end |-> w, repl |-> SubSeq(text, i, d) \o << " ", text[w] >>]
               ELSE NoMatch
      [] pattern = "number in line" ->
           \* re.sub(r'([A-Za-z\)]\s+)(\d+\.)(?=\s*[A-Za-z])', r'\1\n\2', text)
           LET w == Skip(Space, text, i + 1)
               d == Skip(Digits, text, w)
           IN  IF /\ At(text, i) \in Letters \cup { ")" }
                  /\ w > i + 1 /\ d > w /\ At(text, d) = "."
                  /\ At(text, Skip(Space, text, d + 1)) \in Letters
               THEN [end |-> d,
                     repl |-> SubSeq(text, i, w - 1) \o << "\n" >>
                              \o SubSeq(text, w, d)]
               ELSE NoMatch
      [] pattern = "split number" ->
           \* re.sub(r'\n\s*(\d+)\s*\n\s*(\d+\.)', r'\n\1\2', text)
           LET a == Skip(Space, text, i + 1)
               b == Skip(Digits, text, a)
               c == Skip(Space, text, b)
               e == Skip(Digits, text, c)
           IN  IF /\ At(text, i) = "\n" /\ b > a
                  /\ \E p \in b..(c - 1) : text[p] = "\n"
                  /\ e > c /\ At(text, e) = "."
               THEN [end |-> e,
                     repl |-> << "\n" >> \o SubSeq(text, a, b - 1)
                              \o SubSeq(text, c, e)]
               ELSE NoMatch
      [] pattern = "blanks" ->
           \* re.sub(r'\s+', ' ', content)
           IF At(text, i) \in Space
           THEN [end |-> Skip(Space, text, i) - 1, repl |-> << " " >>]
           ELSE NoMatch
      [] pattern = "blank lines" ->
           \* re.sub(r'\n{3,}', '\n\n', formatted_text)
           IF Skip({ "\n" }, text, i) >= i + 3
           THEN [end |-> Skip({ "\n" }, text, i) - 1, repl |-> << "\n", "\n" >>]
           ELSE NoMatch

(* re.sub(pattern, repl, text), from position i on: the leftmost match at   *)
(* or after i is replaced, and the search goes on behind it.                *)
RECURSIVE sub(_, _, _)
sub(pattern, text, i) ==
    LET Replace(j, m) ==
            SubSeq(text, i, j - 1) \o m.repl \o sub(pattern, text, m.end + 1)
        Leftmost(starts) ==
            IF starts = { } THEN SubSeq(text, i, Len(text))
            ELSE LET j == CHOOSE x \in starts : \A y \in starts : x <= y
                 IN  Replace(j, Substitution(pattern, text, j))
    IN  Leftmost({ j \in i..Len(text) : Substitution(pattern, text, j).end # 0 })

\* the exception int() raises on a digit string longer than its limit
ValueError == << "ValueError" >>

\* str(int(line)): the digits without leading zeros
Number(digits) ==
    LET z == Skip({ "0" }, digits, 1)
    IN  IF z > Len(digits) THEN << "0" >> ELSE SubSeq(digits, z, Len(digits))

department == << "d", "e", "p", "a", "r", "t", "m", "e", "n", "t" >>

(* re.search(r'([A-Za-z\s]+department)', line, re.IGNORECASE): the first    *)
(* and last position of the match, << >> when there is none.  From the      *)
(* leftmost position where a run of letters and blanks holds the word after *)
(* at least one character, up to the last such occurrence of the word.      *)
dept_match(line) ==
    LET Last(i) ==
            { p + Len(department) - 1 :
                p \in { q \in (i + 1)..(Skip(Letters \cup Space, line, i) - Len(department)) :
                          WordAt(department, line, q) } }
        starts == { i \in DOMAIN line : Last(i) # { } }
    IN  IF starts = { } THEN << >>
        ELSE LET i == CHOOSE x \in starts : \A y \in starts : x <= y
                 j == CHOOSE x \in Last(i) : \A y \in Last(i) : y <= x
             IN  << i, j >>

\* str.title()
title(text) ==
    [ k \in DOMAIN text |->
        IF At(text, k - 1) \in Letters THEN LowerChar(text[k])
        ELSE IF \E u \in DOMAIN LowerOf : LowerOf[u] = text[k]
             THEN CHOOSE u \in DOMAIN LowerOf : LowerOf[u] = text[k]
             ELSE text[k] ]

\* re.sub(r'^:?\s*is:?\s*', '', remaining)
DropIs(remaining) ==
    LET b == Skip(Space, remaining, IF At(remaining, 1) = ":" THEN 2 ELSE 1)
    IN  IF At(remaining, b) = "i" /\ At(remaining, b + 1) = "s"
        THEN SubSeq(remaining,
                    Skip(Space, remaining,
                         IF At(remaining, b + 2) = ":" THEN b + 3 ELSE b + 2),
                    Len(remaining))
        ELSE remaining

\* lines.append("") unless the list is empty or ends with ""
BlankAfter(lines) ==
    IF lines # << >> /\ lines[Len(lines)] # << >> THEN Append(lines, << >>)
    ELSE lines

(* The body of `for line in raw_lines` in format_regular_text, from the     *)
(* lines and the pending number before the line to those after it.          *)
(* raised: int(line) or int(number.rstrip('.')) met a digit string longer   *)
(* than its limit.  current_number is written and never read; the test for  *)
(* the phrases 'mentioned:', 'list of', ... appends the line on both of its *)
(* branches.                                                                *)
FormatLine(st, raw) ==
    LET Branch(line, d, m) ==
            IF st.raised THEN st
            ELSE IF line = << >> THEN [st EXCEPT !.lines = BlankAfter(@)]
            ELSE IF d > Len(line) THEN
                IF Len(line) > MaxStrDigits THEN [st EXCEPT !.raised = TRUE]
                ELSE [st EXCEPT !.pending_number = Number(line)]
            ELSE IF d > 1 /\ line[d] = "." /\ d < Len(line) THEN
                LET content ==
                        rstrip({ "." },
                               sub("blanks",
                                   strip(Space, SubSeq(line, d + 1, Len(line))), 1))
                IN  IF d - 1 > MaxStrDigits THEN [st EXCEPT !.raised = TRUE]
                    ELSE [st EXCEPT
                            !.lines = Append(@, SubSeq(line, 1, d) \o << " " >> \o content),
                            !.pending_number = None]
            ELSE IF /\ st.pending_number # None
                    /\ Take(line, Len(st.pending_number)) # st.pending_number THEN
                LET content == sub("blanks", rstrip({ "." }, line), 1)
                IN  [st EXCEPT
                        !.lines = Append(@, st.pending_number \o << ".", " " >> \o content),
                        !.pending_number = None]
            ELSE IF d > 1 THEN st
            ELSE IF In(department, lower(line)) /\ m # << >> THEN
                LET dept_name == title(SubSeq(line, m[1], m[2]))
                    remaining == strip(Space, SubSeq(line, m[2] + 1, Len(line)))
                    cleaned ==
                        IF \/ Take(remaining, 1) = << ":" >>
                           \/ Take(remaining, 3) = << "i", "s", ":" >>
                        THEN DropIs(remaining) ELSE remaining
                    named == Append(BlankAfter(st.lines),
                                    << "*", "*" >> \o dept_name \o << "*", "*" >>)
                IN  [st EXCEPT !.lines =
                         BlankAfter(IF cleaned # << >> THEN Append(named, cleaned)
                                    ELSE named)]
            ELSE [st EXCEPT !.lines = Append(@, line)]
        Line(line) == Branch(line, Skip(Digits, line, 1), dept_match(line))
    IN  Line(strip(Space, raw))

RECURSIVE FormatLines(_, _)
FormatLines(st, raw_lines) ==
    IF raw_lines = << >> THEN st
    ELSE FormatLines(FormatLine(st, Head(raw_lines)), Tail(raw_lines))

\* a formatter that returns the joined lines as they are
format_regular_text_KeepsBlankLines(text) ==
    IF text = << >> THEN << >>
    ELSE LET joined  == sub("number, line break", text, 1)
             broken  == sub("number in line", joined, 1)
             merged  == sub("split number", broken, 1)
             Result(st) ==
                 IF st.raised THEN ValueError ELSE join(<< "\n" >>, st.lines)
         IN  Result(FormatLines([lines |-> << >>, pending_number |-> None,
                                 raised |-> FALSE],
                                split(merged, "\n")))

format_regular_text(text) ==
    IF text = << >> THEN << >>
    ELSE LET joined  == sub("number, line break", text, 1)
             broken  == sub("number in line", joined, 1)
             merged  == sub("split number", broken, 1)
             Result(st) ==
                 LET formatted_text == join(<< "\n" >>, st.lines)
                 IN  IF st.raised THEN ValueError
                     ELSE strip({ "\n" }, sub("blank lines", formatted_text, 1))
         IN  Result(FormatLines([lines |-> << >>, pending_number |-> None,
                                 raised |-> FALSE],
                                split(merged, "\n")))

\* the text returned for an empty answer
Guidance ==
    << "I", "'", "m", " ", "h", "a", "p", "p", "y", " ", "t", "o", " ", "a",
       "s", "s", "i", "s", "t", ".", " ", "Y", "o", "u", " ", "c", "a", "n",
       " ", "a", "l", "s", "o", " ", "c", "o", "n", "t", "a", "c", "t", " ",
       "K", "G", " ", "H", "o", "s", "p", "i", "t", "a", "l", " ", "f", "o",
       "r", " ", "d", "e", "t", "a", "i", "l", "e", "d", " ", "g", "u", "i",
       "d", "a", "n", "c", "e", "." >>

\* the test of a line that starts or continues a table
TableLine(line) ==
    \/ In(<< "|" >>, line) /\ In(<< "-", "-", "-" >>, line)
    \/ /\ Cardinality({ i \in DOMAIN line : line[i] = "|" }) >= 2
       /\ \E i \in DOMAIN line : line[i] \in { "-", "=", ":" }

(* The body of `for i, line in enumerate(lines)` in format_response_text.   *)
(* table_start_index is stored with each table and never read.              *)
SectionLine(st, raw) ==
    LET line == strip(Space, raw)
    IN  IF TableLine(line) THEN
            IF ~st.in_table /\ st.current_section # << >>
            THEN [st EXCEPT !.non_table_sections =
                                Append(@, join(<< "\n" >>, st.current_section)),
                            !.current_section = << line >>,
                            !.in_table = TRUE]
            ELSE [st EXCEPT !.current_section = Append(@, line),
                            !.in_table = TRUE]
        ELSE IF st.in_table /\ (In(<< "|" >>, line) \/ line = << >>)
        THEN [st EXCEPT !.current_section = Append(@, line)]
        ELSE IF st.in_table
        THEN [st EXCEPT !.table_sections =
                            Append(@, join(<< "\n" >>, st.current_section)),
                        !.current_section = << line >>,
                        !.in_table = FALSE]
        ELSE [st EXCEPT !.current_section = Append(@, line)]

RECURSIVE Sections(_, _)
Sections(st, lines) ==
    IF lines = << >> THEN
        IF st.current_section = << >> THEN st
        ELSE IF st.in_table
        THEN [st EXCEPT !.table_sections =
                            Append(@, join(<< "\n" >>, st.current_section))]
        ELSE [st EXCEPT !.non_table_sections =
                            Append(@, join(<< "\n" >>, st.current_section))]
    ELSE Sections(SectionLine(st, Head(lines)), Tail(lines))

format_response_text(text) ==
    LET TABLE_START == << "T", "A", "B", "L", "E", "_", "S",
                          "T", "A", "R", "T", "\n" >>
        TABLE_END == << "\n", "T", "A", "B", "L", "E", "_", "E", "N", "D" >>
        \* `if table_sections:` with the non-table sections already formatted
        Combine(table_sections, formatted_sections) ==
            IF \E k \in DOMAIN formatted_sections :
                   formatted_sections[k] = ValueError
            THEN ValueError
            ELSE join(<< "\n", "\n" >>,
                      formatted_sections
                      \o [ k \in DOMAIN table_sections |->
                             TABLE_START \o table_sections[k] \o TABLE_END ])
        \* [format_regular_text(section) for section in ... if section.strip()]
        Formatted(sections) ==
            [ k \in DOMAIN sections |-> format_regular_text(sections[k]) ]
        AfterLoop(original_text, st) ==
            IF st.table_sections = << >>
            THEN format_regular_text(original_text)
            ELSE Combine(st.table_sections,
                         Formatted(SelectSeq(st.non_table_sections,
                                             LAMBDA section :
                                                 strip(Space, section) # << >>)))
        Loop(original_text) ==
            AfterLoop(original_text,
                      Sections([current_section |-> << >>, in_table |-> FALSE,
                                table_sections |-> << >>,
                                non_table_sections |-> << >>],
                               split(original_text, "\n")))
    IN  IF text = << >> THEN Guidance ELSE Loop(strip(Space, text))

Users == { "u1", "u2" }

(* A chat request and what the outside world does during it: the message,  *)
(* who sends it, whether user_name and phone_number come with it, whether   *)
(* the language-model call returns, and whether each Firestore write works. *)
ChatInputs ==
    [ message : UserQuestions, user_id : Users, user_name : BOOLEAN,
      phone_number : BOOLEAN, llm_ok : {TRUE},
      fs_appt : BOOLEAN, fs_notif : BOOLEAN, fs_chat : BOOLEAN ]
    \cup [ message : UserQuestions, user_id : Users, user_name : BOOLEAN,
           phone_number : BOOLEAN,
           llm_ok : {FALSE}, fs_appt : {TRUE}, fs_notif : {TRUE}, fs_chat : {TRUE} ]

(* POST /chat.  The answer comes from the chain when there is one, else     *)
(* from a plain role-prompted model call; an exception anywhere in the      *)
(* handler becomes HTTP 500.  Appointment and chat record are saved after   *)
(* the answer was generated.                                                *)
API_Chat ==
    /\ program = "api"
    /\ started
    /\ Count(Stores(firestore, in_memory_storage), "chat_history") < MaxChats
    /\ \E in \in ChatInputs :
          LET message == in.message
              user_id == in.user_id
              contact == in.phone_number /\ in.user_name
              llm_ok == in.llm_ok
              fs_appt == in.fs_appt
              fs_notif == in.fs_notif
              fs_chat == in.fs_chat
              st == Stores(firestore, in_memory_storage)
              is_appointment == detect_appointment_intent(message)
              books == is_appointment /\ contact
              r == chain_invoke(conversation_chain, message, llm_ok)
              appt == save_appointment_request(st, user_id, message, fs_appt, fs_notif)
              st1 == IF books THEN appt.stores ELSE st
              st2 == save_chat_history(st1, user_id, message, is_appointment, fs_chat)
          IN  /\ books => Count(st, "appointment_requests") < MaxAppointments
              /\ IF ~llm_ok
                 THEN /\ op' = [NoOp EXCEPT !.kind = "chat", !.handler = "chat",
                                            !.message = message,
                                            !.user_id = user_id,
                                            !.user_name = in.user_name,
                                            !.phone_number = in.phone_number,
                                            !.raised = TRUE, !.llm_calls = 1,
                                            !.retrieval = conversation_chain.ready,
                                            !.llm_failed = TRUE]
                      /\ conversation_chain' =
                            IF conversation_chain.ready THEN r.chain
                            ELSE conversation_chain
                      /\ UNCHANGED << firestore, in_memory_storage >>
                 ELSE /\ conversation_chain' =
                            IF conversation_chain.ready THEN r.chain
                            ELSE conversation_chain
                      /\ firestore' = st2.fs
                      /\ in_memory_storage' = st2.mem
                      /\ op' = [NoOp EXCEPT
                                  !.kind = "chat", !.handler = "chat", !.llm_calls = 1,
                                  !.retrieval = conversation_chain.ready,
                                  !.message = message,
                                  !.user_id = user_id,
                                  !.user_name = in.user_name,
                                  !.phone_number = in.phone_number,
                                  !.is_appointment_request = books,
                                  !.appointment_id =
                                      IF books THEN appt.appointment_id ELSE 0]
    /\ UNCHANGED << program, FIREBASE_INITIALIZED, bucket, vectorstore,
                    loaded_firebase_files, all_documents, document_count,
                    auto_loaded, chat_history, loaded_documents, started,
                    ld_raw, ld_res, cap_in, cap_out,
                    fn_in, fn_out >>

---------------------------------------------------------------------------
(* API backend: administration *)

(* list.sort(key=lambda x: x.get('created_at', ''), reverse=True) on the   *)
(* records of one store, which were appended in the order of their         *)
(* creation.                                                               *)
Reverse(seq) == [ i \in DOMAIN seq |-> seq[Len(seq) + 1 - i] ]

(* get_appointment_requests(status): the documents of Firestore when       *)
(* Firebase is initialised and the query does not raise (fs_ok), else the  *)
(* copy of the in-memory list; those of the given status when one is       *)
(* given (`if status:`, false for None and for the empty string, written   *)
(* "" here), newest first.                                                 *)
get_appointment_requests(st, status, fs_ok) ==
    LET appointments ==
            IF FIREBASE_INITIALIZED /\ fs_ok THEN st.fs.appointment_requests
            ELSE st.mem.appointment_requests
    IN  Reverse(SelectSeq(appointments,
                          LAMBDA apt : status = "" \/ apt.status = status))

\* an update that accepts whatever the action is
update_appointment_status_AlwaysAccepts(st, appointment_id, action, fs_ok, fs_notif_ok) ==
    LET Holds(records) ==
            \E k \in DOMAIN records : records[k].appointment_id = appointment_id
        Updated(records) ==
            [ k \in DOMAIN records |->
                IF records[k].appointment_id = appointment_id
                THEN [records[k] EXCEPT !.status = "accepted"] ELSE records[k] ]
    IN  IF FIREBASE_INITIALIZED /\ fs_ok /\ Holds(st.fs.appointment_requests)
        THEN [ found |-> TRUE,
               stores |-> save_admin_notification(
                              [st EXCEPT !.fs.appointment_requests = Updated(@)],
                              "appointment_action", fs_notif_ok) ]
        ELSE IF Holds(st.mem.appointment_requests)
        THEN [ found |-> TRUE,
               stores |-> save_admin_notification(
                              [st EXCEPT !.mem.appointment_requests = Updated(@)],
                              "appointment_action", fs_notif_ok) ]
        ELSE [ found |-> FALSE, stores |-> st ]

(* update_appointment_status(appointment_id, action, admin_notes).  With   *)
(* Firebase initialised the document of this id is read and, when it       *)
(* exists, updated; when it does not exist, or the read or the update      *)
(* raises (fs_ok = FALSE), the in-memory list is searched.  After an       *)
(* update a notification is saved.  Returns whether a record was updated.  *)
update_appointment_status(st, appointment_id, action, fs_ok, fs_notif_ok) ==
    LET new_status == IF action = "accept" THEN "accepted" ELSE "rejected"
        Holds(records) ==
            \E k \in DOMAIN records : records[k].appointment_id = appointment_id
        \* ids are unique, so the first record of this id is the only one
        Updated(records) ==
            [ k \in DOMAIN records |->
                IF records[k].appointment_id = appointment_id
                THEN [records[k] EXCEPT !.status = new_status] ELSE records[k] ]
    IN  IF FIREBASE_INITIALIZED /\ fs_ok /\ Holds(st.fs.appointment_requests)
        THEN [ found |-> TRUE,
               stores |-> save_admin_notification(
                              [st EXCEPT !.fs.appointment_requests = Updated(@)],
                              "appointment_action", fs_notif_ok) ]
        ELSE IF Holds(st.mem.appointment_requests)
        THEN [ found |-> TRUE,
               stores |-> save_admin_notification(
                              [st EXCEPT !.mem.appointment_requests = Updated(@)],
                              "appointment_action", fs_notif_ok) ]
        ELSE [ found |-> FALSE, stores |-> st ]

\* what an administration handler leaves alone besides the record store
AdminIdle ==
    UNCHANGED << program, FIREBASE_INITIALIZED, bucket, vectorstore,
                 conversation_chain, loaded_firebase_files, all_documents,
                 document_count, auto_loaded, chat_history, loaded_documents,
                 started, ld_raw, ld_res, cap_in, cap_out, fn_in, fn_out >>

\* GET /admin/appointments?status=...
API_GetAppointments ==
    /\ program = "api"
    /\ started
    /\ \E status \in { "", "pending", "accepted", "rejected" }, fs_ok \in BOOLEAN :
          LET appointments ==
                  get_appointment_requests(Stores(firestore, in_memory_storage),
                                           status, fs_ok)
          IN  op' = [NoOp EXCEPT
                       !.kind = "appointments", !.handler = "get_appointments",
                       !.status_code = 200,
                       !.filtered_by = IF status = "" THEN "all" ELSE status,
                       !.listing = [ k \in DOMAIN appointments |->
                                       appointments[k].appointment_id ]]
    /\ UNCHANGED << firestore, in_memory_storage >>
    /\ AdminIdle

(* POST /admin/appointments/action: HTTP 400 for an action that is neither *)
(* 'accept' nor 'reject', HTTP 404 when update_appointment_status returns  *)
(* False.                                                                  *)
API_AppointmentAction ==
    /\ program = "api"
    /\ started
    /\ \E appointment_id \in 1..(MaxAppointments + 1),
          action \in { "accept", "reject", "cancel" },
          fs_ok \in BOOLEAN, fs_notif_ok \in BOOLEAN :
          LET st == Stores(firestore, in_memory_storage)
              r == update_appointment_status(st, appointment_id, action,
                                             fs_ok, fs_notif_ok)
              called == [NoOp EXCEPT
                           !.kind = "action", !.handler = "handle_appointment_action",
                           !.appointment_id = appointment_id, !.action = action]
          IN  IF action \notin { "accept", "reject" }
              THEN /\ op' = [called EXCEPT !.raised = TRUE, !.status_code = 400]
                   /\ UNCHANGED << firestore, in_memory_storage >>
              ELSE IF r.found
              THEN /\ Count(st, "admin_notifications") < MaxNotifications
                   /\ op' = [called EXCEPT !.status_code = 200]
                   /\ firestore' = r.stores.fs
                   /\ in_memory_storage' = r.stores.mem
              ELSE /\ op' = [called EXCEPT !.raised = TRUE, !.status_code = 404]
                   /\ UNCHANGED << firestore, in_memory_storage >>
    /\ AdminIdle

(* GET /admin/notifications.  The endpoint is itself named                 *)
(* get_admin_notifications: its `async def` rebinds the module name of the *)
(* function that reads the stores, so the call in its body makes a         *)
(* coroutine object of the endpoint, len() of that object raises, and the  *)
(* except branch answers with an empty list and storage_mode 'error'.      *)
(* The stores are not read.                                                *)
API_GetNotifications ==
    /\ program = "api"
    /\ started
    /\ \E limit \in 1..MaxNotifications :
          op' = [NoOp EXCEPT
                   !.kind = "notifications", !.handler = "get_admin_notifications",
                   !.status_code = 200, !.limit = limit, !.listing = << >>]
    /\ UNCHANGED << firestore, in_memory_storage >>
    /\ AdminIdle

(* POST /admin/notifications/mark-read.  The endpoint is itself named      *)
(* mark_notification_read: the call in its body makes a coroutine object   *)
(* of the endpoint, which is never awaited and counts as true, so the      *)
(* endpoint reports success for every id.  The stores are neither read nor *)
(* written.                                                                *)
API_MarkNotificationRead ==
    /\ program = "api"
    /\ started
    /\ \E notification_id \in 1..(MaxNotifications + 1) :
          op' = [NoOp EXCEPT
                   !.kind = "mark_read", !.handler = "mark_notification_read",
                   !.notification_id = notification_id,
                   !.status_code = 200, !.success = TRUE]
    /\ UNCHANGED << firestore, in_memory_storage >>
    /\ AdminIdle

---------------------------------------------------------------------------
(* The application *)

\* The application variables after import / construction, over blob store b.
AppInit(b) ==
    /\ bucket = b
    /\ vectorstore = NoVectorstore
    /\ conversation_chain = NoChain
    /\ loaded_firebase_files = { }
    /\ all_documents = << >>
    /\ document_count = 0
    /\ auto_loaded = FALSE
    /\ chat_history = << >>
    /\ loaded_documents = << >>
    /\ started = FALSE
    /\ firestore = EmptyStore
    /\ in_memory_storage = EmptyStore
    /\ op = NoOp

EmptyBucket == [f \in FileNames |-> Absent]

\* no function has been applied yet
NotApplied == [fn |-> "none"]

NotLoaded == [by |-> "none", raised |-> FALSE, documents |-> << >>, attempted |-> 0]

\* The two studies of pure functions are idle while the application runs.
StudiesIdle ==
    /\ ld_raw = << Raises, Raises, Raises, Raises >>
    /\ ld_res = NotLoaded
    /\ cap_in = << << >>, << >> >>
    /\ cap_out = << >>
    /\ fn_in = << >>
    /\ fn_out = NotApplied

Init ==
    /\ program \in { "streamlit", "api" }
    /\ FIREBASE_INITIALIZED \in BOOLEAN
    /\ AppInit(EmptyBucket)
    /\ StudiesIdle

(* Ingestion: every handler that loads documents, with the blob store      *)
(* changing under it.                                                       *)
NextIngest ==
    \/ BlobPut
    \/ UI_AutoLoad
    \/ UI_CheckNewFiles
    \/ UI_ForceReload
    \/ API_Startup
    \/ API_ReloadDocuments
    \/ API_UploadDocument

SpecIngest == Init /\ [][NextIngest]_vars

(* Conversation: the chat handlers, over a blob store that holds one        *)
(* document, with the handlers that build and discard the index.            *)
InitChat ==
    /\ program \in { "streamlit", "api" }
    /\ FIREBASE_INITIALIZED \in BOOLEAN
    /\ AppInit([f \in FileNames |-> IF f = FileOrder[1] THEN "v1" ELSE Absent])
    /\ StudiesIdle

NextChat ==
    \/ UI_AutoLoad
    \/ UI_CheckNewFiles
    \/ UI_ForceReload
    \/ UI_Chat
    \/ API_Startup
    \/ API_ReloadDocuments
    \/ API_Chat

SpecChat == InitChat /\ [][NextChat]_vars

(* Administration: the backend with no document stored, its chat handler   *)
(* and the handlers of the admin dashboard.                                 *)
InitAdmin ==
    /\ program = "api"
    /\ FIREBASE_INITIALIZED \in BOOLEAN
    /\ AppInit(EmptyBucket)
    /\ StudiesIdle

NextAdmin ==
    \/ API_Startup
    \/ API_Chat
    \/ API_GetAppointments
    \/ API_AppointmentAction
    \/ API_GetNotifications
    \/ API_MarkNotificationRead

SpecAdmin == InitAdmin /\ [][NextAdmin]_vars

\* Every handler of both programs.
Next ==
    \/ NextIngest \/ UI_Chat \/ API_Chat
    \/ API_GetAppointments \/ API_AppointmentAction
    \/ API_GetNotifications \/ API_MarkNotificationRead

Spec == Init /\ [][Next]_vars

---------------------------------------------------------------------------
(* Study of the loader chain: load_document of either program on a         *)
(* document, for every combination of what the strategies yield on it.     *)

AppIdle ==
    UNCHANGED << program, FIREBASE_INITIALIZED, bucket, vectorstore,
                 conversation_chain, loaded_firebase_files, all_documents,
                 document_count, auto_loaded, chat_history, loaded_documents,
                 started, firestore, in_memory_storage, op >>

InitLoader ==
    /\ program = "streamlit"
    /\ FIREBASE_INITIALIZED = FALSE
    /\ AppInit(EmptyBucket)
    /\ ld_raw \in [1..4 -> RawOutcomes]
    /\ ld_res = NotLoaded
    /\ cap_in = << << >>, << >> >>
    /\ cap_out = << >>
    /\ fn_in = << >>
    /\ fn_out = NotApplied

\* maIn.py: documents = load_document(temp_file_path)
LoadUI ==
    /\ ld_res.by = "none"
    /\ LET r == load_document_ui(ld_raw)
       IN  ld_res' = [by |-> "maIn", raised |-> r.raised,
                      documents |-> r.documents, attempted |-> r.attempted]
    /\ UNCHANGED << ld_raw, cap_in, cap_out,
                    fn_in, fn_out >>
    /\ AppIdle

\* Backend/main.py: documents = load_document(temp_file_path)
LoadAPI ==
    /\ ld_res.by = "none"
    /\ LET r == load_document_api(ld_raw)
       IN  ld_res' = [by |-> "Backend", raised |-> r.raised,
                      documents |-> r.documents, attempted |-> r.attempted]
    /\ UNCHANGED << ld_raw, cap_in, cap_out,
                    fn_in, fn_out >>
    /\ AppIdle

NextLoader == LoadUI \/ LoadAPI

SpecLoader == InitLoader /\ [][NextLoader]_vars

---------------------------------------------------------------------------
(* Study of the chunk cap: setup_vectorstore on two record lists side by   *)
(* side, to compare what the caller gets back.                             *)

\* The record lists of one document whose pages have the given texts.
CapInputs ==
    { SourceRecords(FileOrder[1], "v1", LibraryRecords(Pages(p))) :
        p \in SeqsUpTo(PageTexts, MaxPages) }

InitCap ==
    /\ program = "api"
    /\ FIREBASE_INITIALIZED = FALSE
    /\ AppInit(EmptyBucket)
    /\ ld_raw = << Raises, Raises, Raises, Raises >>
    /\ ld_res = NotLoaded
    /\ cap_in \in CapInputs \X CapInputs
    /\ cap_out = << >>
    /\ fn_in = << >>
    /\ fn_out = NotApplied

\* vectorstore = setup_vectorstore(all_documents), on each of the two lists
BuildBoth ==
    /\ cap_out = << >>
    /\ cap_out' = << setup_vectorstore(cap_in[1], TRUE),
                     setup_vectorstore(cap_in[2], TRUE) >>
    /\ UNCHANGED << ld_raw, ld_res, cap_in, fn_in, fn_out >>
    /\ AppIdle

NextCap == BuildBoth

SpecCap == InitCap /\ [][NextCap]_vars

---------------------------------------------------------------------------
(* Study of detect_appointment_intent: the function applied to one message, *)
(* for every short message over a few letters in both cases and for two     *)
(* whole sentences.                                                         *)

\* Longest message of the intent study that is enumerated letter by letter.
MaxIntentLen == 5

WantToBook ==
    << "I", " ", "w", "a", "n", "t", " ", "t", "o", " ", "b", "o",
       "o", "k", " ", "a", "n", " ", "a", "p", "p", "o", "i", "n",
       "t", "m", "e", "n", "t" >>

VisitingHours ==
    << "W", "h", "a", "t", " ", "a", "r", "e", " ", "y", "o", "u",
       "r", " ", "v", "i", "s", "i", "t", "i", "n", "g", " ", "h",
       "o", "u", "r", "s", "?" >>

IntentMessages ==
    SeqsUpTo({ "b", "o", "k", "B", "O", "K" }, MaxIntentLen) \cup { WantToBook, VisitingHours }

InitIntent ==
    /\ program = "api"
    /\ FIREBASE_INITIALIZED = FALSE
    /\ AppInit(EmptyBucket)
    /\ ld_raw = << Raises, Raises, Raises, Raises >>
    /\ ld_res = NotLoaded
    /\ cap_in = << << >>, << >> >>
    /\ cap_out = << >>
    /\ fn_in \in IntentMessages
    /\ fn_out = NotApplied

\* chat(): is_appointment = detect_appointment_intent(message.message)
DetectIntent ==
    /\ fn_out = NotApplied
    /\ fn_out' = [fn |-> "detect_appointment_intent",
                  value |-> detect_appointment_intent(fn_in)]
    /\ UNCHANGED << ld_raw, ld_res, cap_in, cap_out, fn_in >>
    /\ AppIdle

SpecIntent == InitIntent /\ [][DetectIntent]_vars

---------------------------------------------------------------------------
(* Study of extract_appointment_details: the function applied to one        *)
(* message, for every message of a few fragments separated by blanks and    *)
(* for one whole sentence.                                                  *)

\* Most fragments in a message of the extraction study.
MaxFragments == 3

BookASlot ==
    << "b", "o", "o", "k", " ", "a", " ", "s", "l", "o", "t", " ",
       "o", "n", " ", "1", "2", "/", "2", "5", "/", "2", "0", "2",
       "4", " ", "a", "t", " ", "1", "0", ":", "3", "0", " ", "A",
       "M", " ", "f", "o", "r", " ", "a", " ", "c", "h", "e", "c",
       "k", "u", "p" >>

ExtractMessages ==
    { join(<< " " >>, fs) :
        fs \in SeqsUpTo({ << "1", "2", "/", "2", "5", "/", "2", "0", "2", "4" >>,
                          << "2", "0", "2", "4", "-", "1", "2", "-", "2", "5" >>,
                          << "T", "o", "m", "o", "r", "r", "o", "w" >>,
                          << "1", "0", ":", "3", "0", " ", "A", "M" >>,
                          << "5", "p", "m" >>,
                          << "e", "v", "e", "n", "i", "n", "g" >>,
                          << "f", "o", "r" >>,
                          << "a", "b", "o", "u", "t" >>,
                          << "c", "h", "e", "c", "k", "u", "p" >>,
                          << "b", "e", "f", "o", "r", "e" >> },
                        MaxFragments) }
    \cup { BookASlot }

InitExtract ==
    /\ program = "api"
    /\ FIREBASE_INITIALIZED = FALSE
    /\ AppInit(EmptyBucket)
    /\ ld_raw = << Raises, Raises, Raises, Raises >>
    /\ ld_res = NotLoaded
    /\ cap_in = << << >>, << >> >>
    /\ cap_out = << >>
    /\ fn_in \in ExtractMessages
    /\ fn_out = NotApplied

\* chat(): details = extract_appointment_details(message.message)
ExtractDetails ==
    /\ fn_out = NotApplied
    /\ fn_out' = [fn |-> "extract_appointment_details",
                  value |-> extract_appointment_details(fn_in)]
    /\ UNCHANGED << ld_raw, ld_res, cap_in, cap_out, fn_in >>
    /\ AppIdle

SpecExtract == InitExtract /\ [][ExtractDetails]_vars

---------------------------------------------------------------------------
(* Study of format_response_text: the function applied to one text, and     *)
(* then to its own result, for every text of a few lines: the rows of a     *)
(* table, a blank line, two blank lines, a numbered item, a bare number, a  *)
(* word, a line that starts with a number, a line that names a department,  *)
(* a number too long for int().                                             *)

\* Most lines in a text of the formatter study.
MaxLines == 3

FormatInputs ==
    { join(<< "\n" >>, ls) :
        ls \in SeqsUpTo({ << "|", " ", "A", " ", "|", " ", "B", " ", "|" >>,
                          << "|", "-", "-", "-", "|", "-", "-", "-", "|" >>,
                          << "|", " ", "1", " ", "|", " ", "2", " ", "|" >>,
                          << >>,
                          << "\n" >>,
                          << "1", ".", " ", "F", "o", "o", "." >>,
                          << "2" >>,
                          << "B", "a", "r" >>,
                          << "5", " ", "x" >>,
                          << "H", "e", "a", "r", "t", " ", "d", "e", "p", "a", "r", "t", "m", "e", "n", "t", ":", " ", "x" >>,
                          << "1", "2", "3" >> },
                        MaxLines) }

InitFormat ==
    /\ program = "api"
    /\ FIREBASE_INITIALIZED = FALSE
    /\ AppInit(EmptyBucket)
    /\ ld_raw = << Raises, Raises, Raises, Raises >>
    /\ ld_res = NotLoaded
    /\ cap_in = << << >>, << >> >>
    /\ cap_out = << >>
    /\ fn_in \in FormatInputs
    /\ fn_out = NotApplied

\* chat(): formatted_answer = format_response_text(answer)
Format ==
    /\ fn_out = NotApplied
    /\ fn_out' = [fn |-> "format_response_text", runs |-> 1,
                  value |-> format_response_text(fn_in)]
    /\ UNCHANGED << ld_raw, ld_res, cap_in, cap_out, fn_in >>
    /\ AppIdle

\* format_response_text applied to the text it returned
FormatAgain ==
    /\ fn_out.fn = "format_response_text"
    /\ fn_out.runs = 1
    /\ fn_out.value # ValueError
    /\ fn_out' = [fn |-> "format_response_text", runs |-> 2,
                  first |-> fn_out.value,
                  value |-> format_response_text(fn_out.value)]
    /\ UNCHANGED << ld_raw, ld_res, cap_in, cap_out, fn_in >>
    /\ AppIdle

SpecFormat == InitFormat /\ [][Format \/ FormatAgain]_vars

---------------------------------------------------------------------------
(* Claims *)

Range(seq) == { seq[i] : i \in DOMAIN seq }

\* the index entries that come from the document stored under name f
EntriesOf(vs, f) == { e \in Range(vs.entries) : e.source = f }

\* the records the program keeps of the documents it loaded
Corpus == IF program = "streamlit" THEN all_documents ELSE loaded_documents

\* the names of the documents the program counts as loaded
LoadedNames ==
    IF program = "streamlit" THEN loaded_firebase_files
    ELSE { r.source : r \in Range(loaded_documents) }

\* the chunks of the records the program keeps for name f
DocumentChunks(f) ==
    Range(split_documents(SelectSeq(Corpus, LAMBDA r : r.source = f)))

\* every chunk of document f, and at least one, is an entry of the index
FullyIndexed(f) ==
    /\ DocumentChunks(f) # { }
    /\ DocumentChunks(f) \subseteq Range(vectorstore.entries)

(* C1: in the Streamlit application a document identity is in the loaded   *)
(* set if and only if all of that document's chunks are in the current     *)
(* vector index, whatever ingestion attempts came before.                  *)
C1_LoadedIffFullyIndexed ==
    program = "streamlit" =>
        \A f \in FileNames : f \in loaded_firebase_files <=> FullyIndexed(f)

\* the step is an ingestion call
IngestStep == op'.kind = "ingest"

\* the set of loaded documents, in either program
LoadedSet == << loaded_firebase_files, loaded_documents >>

(* C2: when index construction fails in the embedding during an ingestion  *)
(* call, the index, the conversation chain and the loaded-document set     *)
(* after the call equal their values before it.                            *)
C2_FailedBuildChangesNothing ==
    [][ (IngestStep /\ op'.build = "embed_failed") =>
           /\ vectorstore' = vectorstore
           /\ conversation_chain' = conversation_chain
           /\ LoadedSet' = LoadedSet ]_vars

C5_NoTemporaryFileLeft ==
    op.kind = "ingest" => op.leaked = { }

\* the strategies of the load_document that produced ld_res, in priority order
Strategies == IF ld_res.by = "maIn" THEN 1..4 ELSE 1..2

\* what strategy i hands back on the document when it does not raise
StrategyOutput(i) ==
    IF i <= 2 THEN LibraryRecords(ld_raw[i]) ELSE PageRecords(ld_raw[i])

\* strategy i yields at least one record that has text
YieldsText(i) ==
    /\ ~ld_raw[i].raises
    /\ \E k \in DOMAIN StrategyOutput(i) : NonBlankRecord(StrategyOutput(i)[k])

\* strategy i raises or hands back an empty list
RaisesOrEmpty(i) == ld_raw[i].raises \/ StrategyOutput(i) = << >>

(* C4: load_document returns exactly the output of the first strategy, in   *)
(* priority order, that yields at least one non-empty record, attempts no   *)
(* later strategy, and raises only when every strategy raises or returns    *)
(* an empty result.                                                         *)
C4_FirstStrategyWithTextWins ==
    ld_res.by # "none" =>
        /\ \A i \in Strategies :
              (YieldsText(i) /\ \A j \in 1..(i - 1) : ~YieldsText(j)) =>
                  /\ ~ld_res.raised
                  /\ ld_res.documents = StrategyOutput(i)
                  /\ ld_res.attempted = i
        /\ ld_res.raised => \A i \in Strategies : RaisesOrEmpty(i)

\* setup_vectorstore drops chunks of this record list
Truncated(documents) == Len(split_documents(documents)) > ChunkCap

(* C8: when the chunk cap is exceeded the index holds exactly the first     *)
(* ChunkCap chunks in generation order, and what setup_vectorstore returns  *)
(* tells the caller whether chunks were dropped: two calls that return the  *)
(* same result either both truncated or both did not.                       *)
C8_TruncationIsDetectable ==
    cap_out # << >> =>
        /\ \A k \in 1..2 :
              ~cap_out[k].raised =>
                  cap_out[k].vectorstore.entries =
                      Take(split_documents(cap_in[k]), ChunkCap)
        /\ cap_out[1] = cap_out[2] =>
              Truncated(cap_in[1]) = Truncated(cap_in[2])

\* load_document of the running program on the content stored under f in b
Loader(b, f) ==
    IF program = "streamlit" THEN load_document_ui(Parse(b[f]))
    ELSE load_document_api(Parse(b[f]))

(* The documents an ingestion step set out to load: the listed files the    *)
(* Streamlit application has not loaded yet, every listed file in the       *)
(* backend.                                                                 *)
Batch ==
    { f \in FileNames :
        /\ bucket'[f] # Absent
        /\ program = "streamlit" => f \notin loaded_firebase_files }

\* the documents of the batch that were fetched and that a strategy could read
Processed ==
    { f \in Batch : f \notin op'.download_failed /\ ~Loader(bucket', f).raised }

\* an ingestion step that had a batch to load
BatchStep == IngestStep /\ op'.total_count > 0

(* C6, as stated: the documents that cannot be fetched or read are skipped, *)
(* every other document of the batch is loaded and indexed, the ingestion   *)
(* is reported as failed only when no document could be processed, and the  *)
(* reported count is the number of documents loaded.                        *)
C6_OthersLoadedAndIndexed ==
    [][ BatchStep =>
           /\ \A f \in Processed : f \in LoadedNames' /\ FullyIndexed(f)'
           /\ \A f \in Batch \ Processed : f \notin LoadedNames'
           /\ ~op'.success => Processed = { }
           /\ op'.success => op'.reported_count = Cardinality(Processed) ]_vars

(* C6, amended: the documents that cannot be fetched or read are skipped    *)
(* and every other document of the batch is loaded (the Streamlit loaded    *)
(* set grows by exactly those; the backend's corpus, once the index is      *)
(* built, consists of exactly those); when index construction succeeds the  *)
(* index holds the chunks of all loaded documents up to the chunk cap; the  *)
(* ingestion is reported as failed only when no document could be processed *)
(* or index construction raised; a reported count is the number of          *)
(* documents loaded.                                                        *)
C6_OthersLoaded ==
    [][ BatchStep =>
           /\ program = "streamlit" =>
                 loaded_firebase_files' = loaded_firebase_files \cup Processed
           /\ (program = "api" /\ op'.build = "ok") => LoadedNames' = Processed
           /\ op'.build = "ok" =>
                 /\ Processed \subseteq { r.source : r \in Range(Corpus') }
                 /\ vectorstore'.entries = Take(split_documents(Corpus'), ChunkCap)
           /\ ~op'.success =>
                 Processed = { } \/ op'.build \in { "embed_failed", "chain_failed" }
           /\ op'.success => op'.reported_count = Cardinality(Processed) ]_vars

\* an ingestion skipped one document of two and loaded and indexed the other
C6_Witness ==
    /\ op.kind = "ingest" /\ op.success
    /\ op.total_count = 2 /\ op.reported_count = 1
    /\ \E f \in FileNames : EntriesOf(vectorstore, f) # { }

(* C7: an ingestion step that finds different content stored under an       *)
(* identity that is loaded and has index entries leaves the index holding   *)
(* either only entries of the new content for that identity or exactly the  *)
(* old entries, never both and never none.                                  *)
C7_OnlyNewOrOnlyOld ==
    [][ \A f \in FileNames :
          ( /\ IngestStep
            /\ f \in LoadedNames
            /\ EntriesOf(vectorstore, f) # { }
            /\ bucket'[f] # Absent
            /\ \E r \in Range(Corpus) : r.source = f /\ r.ver # bucket'[f] ) =>
          LET after == EntriesOf(vectorstore', f)
          IN  /\ after # { }
              /\ \/ \A e \in after : e.ver = bucket'[f]
                 \/ after = EntriesOf(vectorstore, f) ]_vars

(* The conversation history: the turns the Streamlit application keeps in  *)
(* the session, the memory of the chain in the backend.                     *)
History == IF program = "streamlit" THEN chat_history ELSE conversation_chain.memory

\* the step is an answer call
ChatStep == op'.kind = "chat"

\* the user turn and the assistant turn of the answer call of this step
NewTurns == << UserTurn(op'.message), AssistantTurn(op'.message) >>

\* the chat records stored so far
ChatRecords == Count(Stores(firestore, in_memory_storage), "chat_history")

(* C9, as stated: every answer call, whether the language-model call        *)
(* succeeds or fails, appends exactly two turns to the conversation         *)
(* history, a user turn followed by an assistant turn.                      *)
C9_EveryCallAppendsTwoTurns ==
    [][ ChatStep => History' = History \o NewTurns ]_vars

(* C9, amended: an answer call whose language-model call succeeds appends   *)
(* exactly two turns, a user turn followed by an assistant turn, to the     *)
(* conversation history (the session history in the Streamlit application,  *)
(* the memory of the chain in both programs when a chain exists); the       *)
(* backend without a chain keeps no history and stores one chat record for  *)
(* the exchange; a call whose language-model call fails appends nothing.    *)
C9_SuccessfulCallAppendsTwoTurns ==
    [][ ChatStep =>
           /\ (~op'.llm_failed /\ program = "streamlit") =>
                 chat_history' = chat_history \o NewTurns
           /\ (~op'.llm_failed /\ conversation_chain.ready) =>
                 conversation_chain'.memory = conversation_chain.memory \o NewTurns
           /\ (~op'.llm_failed /\ program = "api") =>
                 ChatRecords' = ChatRecords + 1
           /\ ~conversation_chain.ready => conversation_chain' = conversation_chain
           /\ op'.llm_failed =>
                 /\ History' = History
                 /\ ChatRecords' = ChatRecords ]_vars

\* a second successful answer call was recorded after a first
C9_Witness ==
    /\ op.kind = "chat" /\ ~op.llm_failed
    /\ Len(History) = 4
    /\ History[3] = UserTurn(op.message) /\ History[4] = AssistantTurn(op.message)

(* C10: when the language-model call of an answer call fails, the caller    *)
(* gets an error, the model was called once, and the conversation history,  *)
(* the memory of the chain and the stored chat records are as they were     *)
(* before the call.                                                         *)
C10_FailedCallChangesNothing ==
    [][ (ChatStep /\ op'.llm_failed) =>
           /\ op'.raised
           /\ op'.llm_calls = 1
           /\ chat_history' = chat_history
           /\ conversation_chain' = conversation_chain
           /\ firestore' = firestore
           /\ in_memory_storage' = in_memory_storage ]_vars

\* an answer call failed in a conversation that already had turns or records
C10_Witness ==
    /\ op.kind = "chat" /\ op.llm_failed /\ op.raised
    /\ conversation_chain.memory # << >>
    /\ program = "api" => ChatRecords > 0

\* every chat record stored, in Firestore or in the fallback list
AllChatRecords ==
    Range(firestore.chat_history) \cup Range(in_memory_storage.chat_history)

(* C11: the history the backend reads to answer a user's message holds no   *)
(* turn produced by another user: every turn of the chain's memory at the   *)
(* time of the call comes from an exchange of the calling user.             *)
C11_HistoryIsPerUser ==
    [][ (ChatStep /\ program = "api") =>
           \A i \in DOMAIN conversation_chain.memory :
              \E r \in AllChatRecords :
                 /\ r.user_id = op'.user_id
                 /\ r.message = conversation_chain.memory[i].content ]_vars

\* the program is serving requests: a chat query can run now
Serving == IF program = "api" THEN started ELSE auto_loaded

OccursAt(keyword, text, i) ==
    /\ i + Len(keyword) - 1 <= Len(text)
    /\ \A j \in 1..Len(keyword) : LowerChar(text[i + j - 1]) = keyword[j]

(* C13: detect_appointment_intent(message) is true if and only if the       *)
(* lower-cased message contains a keyword of the fixed set as a substring;  *)
(* it is true for "I want to book an appointment" and false for "What are   *)
(* your visiting hours?".                                                   *)
C13_IntentIffKeywordSubstring ==
    fn_out.fn = "detect_appointment_intent" =>
        /\ fn_out.value <=>
              \E k \in DOMAIN appointment_keywords, i \in DOMAIN fn_in :
                  OccursAt(appointment_keywords[k], fn_in, i)
        /\ fn_in = WantToBook => fn_out.value
        /\ fn_in = VisitingHours => ~fn_out.value

\* the detector found the keyword in a message typed in capitals
C13_Witness ==
    /\ fn_out.fn = "detect_appointment_intent"
    /\ fn_in = << "B", "O", "O", "K" >>
    /\ fn_out.value

(* C14: for every message, the date returned by                             *)
(* extract_appointment_details is the match of the first of the date        *)
(* patterns (numeric date, year-first date, relative words) that matches    *)
(* anywhere in the message, and the time is the match of the first of the   *)
(* time patterns (HH:MM am/pm, bare hour am/pm, part of the day) that       *)
(* matches anywhere; each of the two depends on its own patterns only and   *)
(* is None exactly when none of them matches; the call returns for every    *)
(* message.  "book a slot on 12/25/2024 at 10:30 AM for a checkup" gives    *)
(* the date "12/25/2024" and the time "10:30 AM".                           *)
C14_HighestPriorityPatternWins ==
    fn_out.fn = "extract_appointment_details" =>
        LET \* the pattern matches somewhere in the message
            Matches(pattern) ==
                \E i \in DOMAIN fn_in : PatternEnds(pattern, fn_in, i) # { }
            \* m is the leftmost match of the pattern in the message
            LeftmostMatch(pattern, m) ==
                \E i \in DOMAIN fn_in :
                    /\ \E j \in PatternEnds(pattern, fn_in, i) :
                           m = SubSeq(fn_in, i, j)
                    /\ \A h \in 1..(i - 1) : PatternEnds(pattern, fn_in, h) = { }
            \* field is the match of the first pattern of the list that
            \* matches, None exactly when none does
            HighestPriority(patterns, field) ==
                /\ \A k \in DOMAIN patterns :
                      /\ Matches(patterns[k])
                      /\ \A h \in 1..(k - 1) : ~Matches(patterns[h])
                      => LeftmostMatch(patterns[k], field)
                /\ field = None <=> \A k \in DOMAIN patterns : ~Matches(patterns[k])
        IN  /\ HighestPriority(<< "numeric date", "year-first date",
                                  "relative date" >>, fn_out.value.date)
            /\ HighestPriority(<< "clock time", "hour", "part of day" >>,
                               fn_out.value.time)
            /\ fn_in = BookASlot =>
                   /\ fn_out.value.date = << "1", "2", "/", "2", "5", "/", "2", "0", "2", "4" >>
                   /\ fn_out.value.time = << "1", "0", ":", "3", "0", " ", "A", "M" >>

\* a message with a relative word before a numeric date: the numeric date is
\* returned, with the clock time that follows it
C14_Witness ==
    /\ fn_out.fn = "extract_appointment_details"
    /\ fn_in = join(<< " " >>, << << "T", "o", "m", "o", "r", "r", "o", "w" >>, << "1", "2", "/", "2", "5", "/", "2", "0", "2", "4" >>,
                       << "1", "0", ":", "3", "0", " ", "A", "M" >> >>)
    /\ fn_out.value.date = << "1", "2", "/", "2", "5", "/", "2", "0", "2", "4" >>
    /\ fn_out.value.time = << "1", "0", ":", "3", "0", " ", "A", "M" >>

(* C15: the reason returned by extract_appointment_details is the text that *)
(* follows the marker word (for, regarding, about, because) that occurs     *)
(* first in the message, cut to the length limit, and it is None when the   *)
(* message contains no marker word.  Stated in favour of the code: a marker *)
(* counts wherever its letters occur, and the text is compared in lower     *)
(* case and without the blanks around it.                                   *)
C15_ReasonFollowsFirstMarker ==
    fn_out.fn = "extract_appointment_details" =>
        LET message_lower == lower(fn_in)
            \* the markers that occur at position i of the message
            MarkersAt(i) ==
                { k \in DOMAIN reason_indicators :
                    OccursAt(reason_indicators[k], message_lower, i) }
            positions == { i \in DOMAIN fn_in : MarkersAt(i) # { } }
            first == CHOOSE i \in positions : \A h \in positions : i <= h
            marker == reason_indicators[CHOOSE k \in MarkersAt(first) : TRUE]
        IN  IF positions = { } THEN fn_out.value.reason = None
            ELSE fn_out.value.reason =
                     Take(strip(Space, SubSeq(message_lower, first + Len(marker),
                                              Len(message_lower))),
                          ReasonCap)

(* C16: format_response_text returns a text for every input, it never       *)
(* raises, and for the empty input it returns the fixed guidance text,      *)
(* which is not empty.                                                      *)
C16_FormatIsTotal ==
    fn_out.fn = "format_response_text" =>
        /\ fn_out.value # ValueError
        /\ (IF fn_out.runs = 1 THEN fn_in ELSE fn_out.first) = << >> =>
               fn_out.value = Guidance /\ Guidance # << >>

(* C17: when the input holds the table run "| A | B |", "|---|---|",        *)
(* "| 1 | 2 |" on three lines in a row, the text format_response_text       *)
(* returns holds the same three lines in a row, unchanged.                  *)
C17_TableRunPassesThrough ==
    LET ExampleTable ==
            << "|", " ", "A", " ", "|", " ", "B", " ", "|" >> \o << "\n" >>
            \o << "|", "-", "-", "-", "|", "-", "-", "-", "|" >> \o << "\n" >>
            \o << "|", " ", "1", " ", "|", " ", "2", " ", "|" >>
    IN  /\ fn_out.fn = "format_response_text"
        /\ fn_out.runs = 1
        /\ fn_out.value # ValueError
        /\ In(ExampleTable, fn_in)
        => In(ExampleTable, fn_out.value)

(* C18: format_response_text applied to a text it returned gives a text     *)
(* with no more lines and no more blank lines than the text it was given,   *)
(* and with the same "N. content" lines.                                    *)
C18_SecondRunAddsNothing ==
    LET Lines(text) == split(text, "\n")
        BlankLines(text) == { i \in DOMAIN Lines(text) : Lines(text)[i] = << >> }
        \* the lines of the form "N. content", in their order
        NumberedItems(text) ==
            SelectSeq(Lines(text),
                      LAMBDA line :
                          LET d == Skip(Digits, line, 1)
                          IN  d > 1 /\ At(line, d) = "." /\ At(line, d + 1) = " ")
    IN  /\ fn_out.fn = "format_response_text"
        /\ fn_out.runs = 2
        /\ fn_out.value # ValueError
        => /\ Len(Lines(fn_out.value)) <= Len(Lines(fn_out.first))
           /\ Cardinality(BlankLines(fn_out.value))
                  <= Cardinality(BlankLines(fn_out.first))
           /\ NumberedItems(fn_out.value) = NumberedItems(fn_out.first)

C20_HistoryOnlyGrows ==
    [][ Take(conversation_chain'.memory, Len(conversation_chain.memory))
            = conversation_chain.memory ]_vars

(* C21: the conversation engine is INDEXED, that is, an answer call is      *)
(* asked of the retrieval chain, exactly when an index build has succeeded  *)
(* and the index has not been discarded since: before any ingestion it is   *)
(* NO_INDEX, a successful build makes it INDEXED, a discard (Force Reload)  *)
(* makes it NO_INDEX, and no other step, a failed ingestion included,       *)
(* changes it.  In NO_INDEX an answer call is one plain model call that     *)
(* neither reads nor writes a chain.                                        *)
C21_IndexedIffBuiltAndKept ==
    [][ LET Indexed(chain) == chain.ready
        IN  /\ op.kind = "none" => ~Indexed(conversation_chain)
            /\ Indexed(conversation_chain') =
                  ( IF op'.kind = "ingest" /\ op'.build = "ok" THEN TRUE
                    ELSE IF op'.kind = "force_reload" THEN FALSE
                    ELSE Indexed(conversation_chain) )
            /\ ChatStep =>
                  /\ op'.retrieval = Indexed(conversation_chain)
                  /\ op'.llm_calls = 1
                  /\ ~Indexed(conversation_chain) =>
                        conversation_chain' = conversation_chain ]_vars

\* an answer call was asked of the chain that a successful build created
C21_Witness ==
    /\ op.kind = "chat" /\ op.retrieval /\ ~op.llm_failed
    /\ conversation_chain.ready
    /\ conversation_chain.retriever # << >>
    /\ conversation_chain.memory = << UserTurn(op.message), AssistantTurn(op.message) >>

(* C22: format_response_text renders the blocks of the answer in input      *)
(* order.  Of two lines of different kind (one a table line, the other      *)
(* not) that both appear in the output as they were, the one that comes     *)
(* first in the input has an occurrence in the output before an occurrence  *)
(* of the other.                                                            *)
C22_BlocksKeepInputOrder ==
    (fn_out.fn = "format_response_text" /\ fn_out.runs = 1
       /\ fn_out.value # ValueError) =>
        LET in_lines == split(fn_in, "\n")
            out_lines == split(fn_out.value, "\n")
            Where(line) == { p \in DOMAIN out_lines : out_lines[p] = line }
        IN  \A i, j \in DOMAIN in_lines :
                ( /\ i < j
                  /\ in_lines[i] # << >> /\ in_lines[j] # << >>
                  /\ TableLine(in_lines[i]) # TableLine(in_lines[j])
                  /\ Where(in_lines[i]) # { } /\ Where(in_lines[j]) # { } )
                => \E p \in Where(in_lines[i]), q \in Where(in_lines[j]) : p < q

C24_NoContentLost ==
    (fn_out.fn = "format_response_text" /\ fn_out.runs = 1
       /\ fn_out.value # ValueError) =>
        LET in_lines == split(fn_in, "\n")
            Words(line) ==
                { w \in { strip({ ".", ":" }, p) : p \in Range(split(line, " ")) } :
                    w # << >> }
        IN  /\ strip(Space, fn_in) # << >> => fn_out.value # << >>
            /\ \A i \in DOMAIN in_lines :
                  ~In(<< "|" >>, in_lines[i]) =>
                      \A w \in Words(in_lines[i]) :
                          In(lower(w), lower(fn_out.value))

(* C25: in the running backend the index, the conversation chain and the   *)
(* loaded documents are of one piece after every ingestion call: either    *)
(* none of the three is set, or the index was built from the loaded        *)
(* documents and the chain retrieves from this index; GET /system/status   *)
(* then never reports vectorstore_ready different from                     *)
(* conversation_chain_ready.                                               *)
C25_GlobalsOfOneReload ==
    (program = "api" /\ started) =>
        /\ vectorstore.ready = conversation_chain.ready
        /\ ~vectorstore.ready => loaded_documents = << >>
        /\ vectorstore.ready =>
              /\ vectorstore.entries = LimitChunks(split_documents(loaded_documents))
              /\ conversation_chain.retriever = vectorstore.entries

C27_SavedAppointmentIsListedAndFound ==
    LET Recorded == { firestore.appointment_requests[k].appointment_id :
                        k \in DOMAIN firestore.appointment_requests }
                    \cup { in_memory_storage.appointment_requests[k].appointment_id :
                             k \in DOMAIN in_memory_storage.appointment_requests }
        Listed == { op.listing[k] : k \in DOMAIN op.listing }
    IN  /\ (op.kind = "appointments" /\ op.filtered_by = "all")
              => Recorded \subseteq Listed
        /\ (op.kind = "action" /\ op.action \in { "accept", "reject" }
                                /\ op.appointment_id \in Recorded)
              => op.status_code = 200

(* C28: the status of an appointment is 'pending', 'accepted' or           *)
(* 'rejected'; a record is created 'pending'; a status changes only by an  *)
(* admin action, which sets the record of the id sent to 'accepted' for    *)
(* 'accept' and to 'rejected' for 'reject' and leaves the other records    *)
(* alone; an action that is neither is answered with HTTP 400 and changes  *)
(* no record; an action on an id that no record has is answered with HTTP  *)
(* 404 and changes no record.                                              *)
C28_StatusChangesOnlyByAdminAction ==
    [][ LET Before == firestore.appointment_requests
                      \o in_memory_storage.appointment_requests
            After == firestore'.appointment_requests
                     \o in_memory_storage'.appointment_requests
            Old(apt) == { old \in { Before[k] : k \in DOMAIN Before } :
                            old.appointment_id = apt.appointment_id }
            Acted == /\ op'.kind = "action"
                     /\ op'.status_code = 200
            Target(apt) == Acted /\ apt.appointment_id = op'.appointment_id
        IN  /\ \A k \in DOMAIN After :
                  LET apt == After[k]
                  IN  /\ apt.status \in { "pending", "accepted", "rejected" }
                      /\ Old(apt) = { } => apt.status = "pending"
                      /\ \A old \in Old(apt) :
                            IF Target(apt)
                            THEN /\ op'.action \in { "accept", "reject" }
                                 /\ apt = [old EXCEPT !.status = op'.action \o "ed"]
                            ELSE apt = old
            /\ Len(After) >= Len(Before)
            /\ op'.kind = "action" =>
                  /\ op'.status_code # 200 =>
                        /\ firestore' = firestore
                        /\ in_memory_storage' = in_memory_storage
                  /\ op'.action \notin { "accept", "reject" } => op'.status_code = 400
                  /\ (/\ op'.action \in { "accept", "reject" }
                      /\ \A k \in DOMAIN Before :
                            Before[k].appointment_id # op'.appointment_id)
                        => op'.status_code = 404
                  /\ op'.status_code = 200 =>
                        \E k \in DOMAIN Before :
                            /\ Before[k].appointment_id = op'.appointment_id
                            /\ After[k].status = op'.action \o "ed" ]_vars

\* a pending appointment has been rejected by an admin action
C28_Witness ==
    /\ op.kind = "action"
    /\ op.action = "reject"
    /\ op.status_code = 200
    /\ \E k \in DOMAIN in_memory_storage.appointment_requests :
          /\ in_memory_storage.appointment_requests[k].appointment_id = op.appointment_id
          /\ in_memory_storage.appointment_requests[k].status = "rejected"

(* C29: after POST /admin/notifications/mark-read has reported success for *)
(* an id, a stored notification has that id and its read flag is set; for  *)
(* an id that no stored notification has the endpoint does not report      *)
(* success.                                                                *)
C29_MarkReadSetsTheFlag ==
    LET Stored == { firestore.admin_notifications[k] :
                      k \in DOMAIN firestore.admin_notifications }
                  \cup { in_memory_storage.admin_notifications[k] :
                           k \in DOMAIN in_memory_storage.admin_notifications }
    IN  op.kind = "mark_read" =>
          (op.success <=> \E n \in Stored : n.id = op.notification_id /\ n.read)

(* C30: the answer to GET /admin/notifications holds at most `limit`       *)
(* notifications, newest first, and with a limit no smaller than the       *)
(* number of notifications saved so far it holds the notification of       *)
(* every appointment created and every status updated.                     *)
C30_NotificationsAreListed ==
    LET Saved == { firestore.admin_notifications[k].id :
                     k \in DOMAIN firestore.admin_notifications }
                 \cup { in_memory_storage.admin_notifications[k].id :
                          k \in DOMAIN in_memory_storage.admin_notifications }
        Listed == { op.listing[k] : k \in DOMAIN op.listing }
    IN  op.kind = "notifications" =>
          /\ Len(op.listing) <= op.limit
          /\ \A j, k \in DOMAIN op.listing : j < k => op.listing[j] > op.listing[k]
          /\ op.limit >= Cardinality(Saved) => Saved \subseteq Listed
====
